---- MODULE Spec2Model ----
(***************************************************************************)
(* Stormline UTL bot: the retry wrapper (utils.retry_with_backoff), the    *)
(* per-user conversation history (utils.ConversationHistory), the text     *)
(* truncation (utils.truncate_text), the two-backend orchestrator         *)
(* (ai_models.MultiModelOrchestrator.query_both), the document handler     *)
(* (bot.handle_document) and the start of the process (config.Config).     *)
(*                                                                         *)
(* A text is a sequence of characters (Python str); Python's len is Len.   *)
(* An exception is a record [cls, msg, at]: its class, its message and the *)
(* place where the object was created, which gives the object an identity. *)
(***************************************************************************)
EXTENDS Integers, Sequences, FiniteSets, TLC

VARIABLES
    \* retry_with_backoff applied to one operation
    max_retries,      \* the decorator's max_retries argument
    base_delay,       \* the decorator's base_delay argument
    w,                \* the wrapper's frame: loop variable, last_exception, outcome
    opLog,            \* the outcome of every attempt of the wrapped operation, in order
    \* ConversationHistory
    max_length,       \* ConversationHistory.max_length (config.max_history_length)
    histories,        \* ConversationHistory.histories: user_id -> list of messages
    added,            \* per user, every message passed to add_message since the last clear
    got,              \* what the last call returned, when it was get_history
    lastCall,         \* the last ConversationHistory method called, and its user_id
    \* MultiModelOrchestrator.query_both
    max_message_length, \* config.max_message_length
    qpc,              \* where query_both is: idle, gather, synth, done
    qmsg,             \* its message argument
    qhist,            \* its conversation_history argument
    tasks,            \* the two gathered generate_response calls (wrapper frames)
    sw,               \* the wrapper frame of the synthesis call to GPT-4
    sent,             \* per backend, the messages list of every API call issued
    synthCount,       \* number of calls of _synthesize_responses
    synthPrompt,      \* the synthesis_prompt it built
    qret,             \* what query_both returned or raised
    lastApiExc,       \* per caller, the exception its last failed API call raised
    \* truncate_text applied to one text, and again to its result
    tpc,              \* start, once (truncated), twice (truncated again)
    tText,            \* the text argument
    tCeil,            \* the max_length argument
    tOut1,            \* truncate_text(tText, tCeil)
    tOut2,            \* truncate_text(tOut1, tCeil)
    \* bot.handle_document, one upload at a time
    dpc,              \* idle, download (awaiting the file), done
    dUpload,          \* the update: user, document or photo, caption
    dPrompt,          \* the handler's prompt
    dHist,            \* the handler's history (what get_history returned)
    dOutcome,         \* how the handler ended
    dReply,           \* the text of the last reply sent or edited
    \* process start: import of config, import of bot, main()
    env,              \* os.environ restricted to the three required credentials
    spc,              \* start, config (config imported), components, polling,
                      \* aborted (import raised), exited (main returned)
    cfg,              \* the Config object's three credential attributes
    adapters,         \* per backend adapter constructed so far, its api_key
    startCalls,       \* backend API calls issued, each with the api_key it used
    \* the query handlers of bot.py running as coroutines of one event loop
    hq,               \* per handler invocation: its position, locals and calls
    hdone,            \* the invocations that appended to the history, in that order
    \* asyncio.gather in query_both
    settled           \* the gathered calls in the order in which they finished

retryVars == <<max_retries, base_delay, w, opLog>>
histVars == <<max_length, histories, added, got, lastCall>>
queryVars == <<max_message_length, qpc, qmsg, qhist, tasks, sw, sent,
               synthCount, synthPrompt, qret, lastApiExc>>
truncVars == <<tpc, tText, tCeil, tOut1, tOut2>>
docVars == <<dpc, dUpload, dPrompt, dHist, dOutcome, dReply>>
startVars == <<env, spc, cfg, adapters, startCalls>>
handVars == <<hq, hdone>>
orderVars == <<settled>>
extraVars == <<truncVars, docVars, startVars, handVars>>
othersOfRetry == <<histVars, queryVars, extraVars, orderVars>>
othersOfHist == <<retryVars, queryVars, extraVars, orderVars>>
othersOfQuery == <<retryVars, histVars, extraVars, orderVars>>
othersOfTrunc == <<retryVars, histVars, queryVars, docVars, startVars, handVars, orderVars>>
othersOfDoc == <<retryVars, queryVars, truncVars, startVars, handVars, orderVars>>
othersOfStart == <<retryVars, histVars, queryVars, truncVars, docVars, handVars, orderVars>>
othersOfHand == <<retryVars, queryVars, truncVars, docVars, startVars, orderVars>>
othersOfOrder == <<retryVars, histVars, extraVars>>
vars == <<max_retries, base_delay, w, opLog, max_length, histories, added, got,
          lastCall,
          max_message_length, qpc, qmsg, qhist, tasks, sw, sent,
          synthCount, synthPrompt, qret, lastApiExc,
          tpc, tText, tCeil, tOut1, tOut2,
          dpc, dUpload, dPrompt, dHist, dOutcome, dReply,
          env, spc, cfg, adapters, startCalls,
          hq, hdone, settled>>

(***************************************************************************)
(* Bounds of the model.                                                    *)
(***************************************************************************)
MaxBudget == 3
MaxBaseDelay == 2
MaxTurns == 2
MaxAdds == 5

(***************************************************************************)
(* Python values.                                                          *)
(***************************************************************************)
Rep(c, n) == [i \in 1..n |-> c]

Min(a, b) == IF a <= b THEN a ELSE b
Max(a, b) == IF a >= b THEN a ELSE b

RECURSIVE Pow2(_)
Pow2(n) == IF n <= 0 THEN 1 ELSE 2 * Pow2(n - 1)

\* seq[start:] with Python's rule for a negative or too large start
PySliceFrom(seq, start) ==
    LET n == Len(seq)
        s == IF start < 0 THEN Max(n + start, 0) ELSE Min(start, n)
    IN SubSeq(seq, s + 1, n)

\* seq[:stop] with Python's rule for a negative or too large stop
PySliceTo(seq, stop) ==
    LET n == Len(seq)
        e == IF stop < 0 THEN Max(n + stop, 0) ELSE Min(stop, n)
    IN SubSeq(seq, 1, e)

NoExc == [cls |-> "None", msg |-> <<>>, at |-> <<>>]

Pending == [kind |-> "pending", val |-> <<>>, exc |-> NoExc]
Returned(v) == [kind |-> "return", val |-> v, exc |-> NoExc]
ReturnedNone == [kind |-> "return_none", val |-> <<>>, exc |-> NoExc]
Raised(e) == [kind |-> "raise", val |-> <<>>, exc |-> e]

(***************************************************************************)
(* utils.truncate_text                                                     *)
(***************************************************************************)
Suffix == <<".", ".", ".">>

truncate_text(text, maxlen) ==
    IF Len(text) <= maxlen
    THEN text
    ELSE PySliceTo(text, maxlen - Len(Suffix)) \o Suffix

(***************************************************************************)
(* utils.retry_with_backoff: the wrapper's frame and its steps.  The       *)
(* wrapper suspends while the operation runs (pc = "call") and while it    *)
(* sleeps (pc = "sleep").                                                  *)
(***************************************************************************)
WrapperIdle ==
    [pc |-> "idle", attempt |-> 0, last_exception |-> NoExc,
     outcome |-> Pending, calls |-> 0, sleeps |-> <<>>]

\* The wrapper is called: last_exception = None, then the first pass of
\* `for attempt in range(max_retries)`; an empty range falls through to the
\* end of the function, which returns None.
WrapperEnter(mr) ==
    IF mr > 0
    THEN [WrapperIdle EXCEPT !.pc = "call", !.calls = 1]
    ELSE [WrapperIdle EXCEPT !.pc = "done", !.outcome = ReturnedNone]

\* A wrapper that, after a success, still raises a failure it saw before.
WrapperOnReturn_ReportsEarlier(f, v) ==
    IF f.last_exception = NoExc
    THEN [f EXCEPT !.pc = "done", !.outcome = Returned(v)]
    ELSE [f EXCEPT !.pc = "done", !.outcome = Raised(f.last_exception)]

\* `return await func(*args, **kwargs)`
WrapperOnReturn(f, v) ==
    [f EXCEPT !.pc = "done", !.outcome = Returned(v)]

\* A wrapper that remembers the first failure instead of the last one.
WrapperOnRaise_KeepFirst(f, e, mr, bd) ==
    LET keep == IF f.last_exception = NoExc THEN e ELSE f.last_exception
    IN IF f.attempt < mr - 1
       THEN [f EXCEPT !.pc = "sleep", !.last_exception = keep,
                      !.sleeps = Append(@, bd * Pow2(f.attempt))]
       ELSE [f EXCEPT !.pc = "done", !.last_exception = keep,
                      !.outcome = Raised(keep)]

\* `except Exception as e`: remember it, then sleep or leave the loop and
\* `raise last_exception`.
\* A wrapper whose exponent counts the attempts from one.
WrapperOnRaise_OneBased(f, e, mr, bd) ==
    IF f.attempt < mr - 1
    THEN [f EXCEPT !.pc = "sleep", !.last_exception = e,
                   !.sleeps = Append(@, bd * Pow2(f.attempt + 1))]
    ELSE [f EXCEPT !.pc = "done", !.last_exception = e, !.outcome = Raised(e)]

\* A wrapper that retries plain Exception objects only and lets every other
\* class through at once.
WrapperOnRaise_FastFail(f, e, mr, bd) ==
    IF f.attempt < mr - 1 /\ e.cls = "Exception"
    THEN [f EXCEPT !.pc = "sleep", !.last_exception = e,
                   !.sleeps = Append(@, bd * Pow2(f.attempt))]
    ELSE [f EXCEPT !.pc = "done", !.last_exception = e, !.outcome = Raised(e)]

\* A wrapper whose loop runs one pass more than max_retries.
WrapperOnRaise_ExtraAttempt(f, e, mr, bd) ==
    IF f.attempt < mr
    THEN [f EXCEPT !.pc = "sleep", !.last_exception = e,
                   !.sleeps = Append(@, bd * Pow2(f.attempt))]
    ELSE [f EXCEPT !.pc = "done", !.last_exception = e, !.outcome = Raised(e)]

WrapperOnRaise(f, e, mr, bd) ==
    IF f.attempt < mr - 1
    THEN [f EXCEPT !.pc = "sleep", !.last_exception = e,
                   !.sleeps = Append(@, bd * Pow2(f.attempt))]
    ELSE [f EXCEPT !.pc = "done", !.last_exception = e, !.outcome = Raised(e)]

\* asyncio.sleep returns: the next pass of the loop calls the operation again.
WrapperWake(f) ==
    [f EXCEPT !.pc = "call", !.attempt = @ + 1, !.calls = @ + 1]

(***************************************************************************)
(* The wrapper around a generic operation.                                 *)
(***************************************************************************)
UserIds == {1, 2}
Backends == {"claude", "gpt"}
DefaultMaxMessageLength == 4000
Callers == {"claude", "gpt", "synth"}
NoGot == [user |-> 0, result |-> <<>>]
NoCall == [op |-> "none", user |-> 0]

Values == {<<"v">>, <<"w">>}
ExcClasses == {"ValueError", "TimeoutError", "RuntimeError"}

RetryIdle ==
    /\ max_retries = 0
    /\ base_delay = 1
    /\ w = WrapperIdle
    /\ opLog = <<>>

HistIdle ==
    /\ max_length = 0
    /\ histories = [x \in {} |-> <<>>]
    /\ added = [u \in UserIds |-> <<>>]
    /\ got = NoGot
    /\ lastCall = NoCall

QueryIdle ==
    /\ max_message_length = DefaultMaxMessageLength
    /\ qpc = "idle"
    /\ qmsg = <<>>
    /\ qhist = <<>>
    /\ tasks = [b \in Backends |-> WrapperIdle]
    /\ sw = WrapperIdle
    /\ sent = [b \in Backends |-> <<>>]
    /\ synthCount = 0
    /\ synthPrompt = <<>>
    /\ qret = Pending
    /\ lastApiExc = [who \in Callers |-> NoExc]

TruncIdle ==
    /\ tpc = "idle"
    /\ tText = <<>>
    /\ tCeil = 0
    /\ tOut1 = <<>>
    /\ tOut2 = <<>>

NoUpload ==
    [user |-> 0, kind |-> "none", ext |-> "", big |-> FALSE,
     caption |-> <<>>, pdf |-> "one"]

DocIdle ==
    /\ dpc = "idle"
    /\ dUpload = NoUpload
    /\ dPrompt = <<>>
    /\ dHist = <<>>
    /\ dOutcome = "none"
    /\ dReply = <<>>

\* os.getenv gives None or a str
EnvNone == [isNone |-> TRUE, str |-> <<>>]
EnvStr(t) == [isNone |-> FALSE, str |-> t]
Credentials == <<"TELEGRAM_BOT_TOKEN", "ANTHROPIC_API_KEY", "OPENAI_API_KEY">>
CredentialKeys == {Credentials[i] : i \in 1..Len(Credentials)}
NoConfig == [k \in {} |-> <<>>]

\* a process that is up with all three credentials in place
StartIdle ==
    /\ env = [k \in CredentialKeys |-> EnvStr(<<"k">>)]
    /\ spc = "polling"
    /\ cfg = [k \in CredentialKeys |-> <<"k">>]
    /\ adapters = [b \in Backends |-> <<"k">>]
    /\ startCalls = <<>>

\* the handler invocations the model follows
Slots == {1, 2}

\* an invocation that has not begun: no locals, no call made
NoHandler ==
    [pc |-> "idle", user |-> 0, kind |-> "none", message |-> <<>>,
     ref |-> "none", hist |-> <<>>, read |-> <<>>, before |-> {},
     frames |-> [c \in Callers |-> WrapperIdle],
     lastSent |-> [c \in Callers |-> <<>>],
     qret |-> Pending, reply |-> <<>>, events |-> <<>>]

HandIdle ==
    /\ hq = [s \in Slots |-> NoHandler]
    /\ hdone = <<>>

\* no gathered call has finished
OrderIdle == settled = <<>>

ExtraIdle == TruncIdle /\ DocIdle /\ StartIdle /\ HandIdle /\ OrderIdle

RetryInit ==
    /\ max_retries \in 0..MaxBudget
    /\ base_delay \in 1..MaxBaseDelay
    /\ w = WrapperIdle
    /\ opLog = <<>>
    /\ HistIdle
    /\ QueryIdle
    /\ ExtraIdle

RetryCall ==
    /\ w.pc = "idle"
    /\ w' = WrapperEnter(max_retries)
    /\ UNCHANGED <<max_retries, base_delay, opLog>>

OpReturns(v) ==
    /\ w.pc = "call"
    /\ w' = WrapperOnReturn(w, v)
    /\ opLog' = Append(opLog, Returned(v))
    /\ UNCHANGED <<max_retries, base_delay>>

OpRaises(c) ==
    /\ w.pc = "call"
    /\ LET e == [cls |-> c, msg |-> <<"failed">>, at |-> <<"op", w.calls>>]
       IN /\ w' = WrapperOnRaise(w, e, max_retries, base_delay)
          /\ opLog' = Append(opLog, Raised(e))
    /\ UNCHANGED <<max_retries, base_delay>>

SleepEnds ==
    /\ w.pc = "sleep"
    /\ w' = WrapperWake(w)
    /\ UNCHANGED <<max_retries, base_delay, opLog>>

RetryNext ==
    \/ RetryCall /\ UNCHANGED othersOfRetry
    \/ (\E v \in Values : OpReturns(v)) /\ UNCHANGED othersOfRetry
    \/ (\E c \in ExcClasses : OpRaises(c)) /\ UNCHANGED othersOfRetry
    \/ SleepEnds /\ UNCHANGED othersOfRetry

SpecRetry == RetryInit /\ [][RetryNext]_vars

(***************************************************************************)
(* utils.ConversationHistory.  histories is a dict: a function whose       *)
(* domain is the set of user ids that have an entry.                       *)
(***************************************************************************)
Roles == {"user", "assistant"}
Contents == {<<"x">>, <<"y">>}

Message(role, content) == [role |-> role, content |-> content]

\* an add_message whose trim keeps the oldest entries: the message just
\* appended is lost when the list is full
add_message_TrimDropsNewest(hs, ml, u, role, content) ==
    LET cur == IF u \in DOMAIN hs THEN hs[u] ELSE <<>>
        appended == Append(cur, Message(role, content))
        kept == IF Len(appended) > ml * 2
                THEN SubSeq(appended, 1, ml * 2)
                ELSE appended
    IN [x \in (DOMAIN hs) \cup {u} |-> IF x = u THEN kept ELSE hs[x]]

\* ConversationHistory.add_message
add_message(hs, ml, u, role, content) ==
    LET cur == IF u \in DOMAIN hs THEN hs[u] ELSE <<>>
        appended == Append(cur, Message(role, content))
        kept == IF Len(appended) > ml * 2
                THEN PySliceFrom(appended, (-ml) * 2)
                ELSE appended
    IN [x \in (DOMAIN hs) \cup {u} |-> IF x = u THEN kept ELSE hs[x]]

\* ConversationHistory.get_history
get_history(hs, u) == IF u \in DOMAIN hs THEN hs[u] ELSE <<>>

\* A get_history that creates the missing entry (dict.setdefault).
get_history_store_SetDefault(hs, u) ==
    [x \in (DOMAIN hs) \cup {u} |-> IF x \in DOMAIN hs THEN hs[x] ELSE <<>>]

\* The dict after get_history: dict.get does not touch it.
get_history_store(hs, u) == hs

\* A clear_history that assigns the empty list without the membership test.
clear_history_NoMembershipTest(hs, u) ==
    [x \in (DOMAIN hs) \cup {u} |-> IF x = u THEN <<>> ELSE hs[x]]

\* ConversationHistory.clear_history
\* a clear_history that empties every user's list
clear_history_EveryUser(hs, u) ==
    IF u \in DOMAIN hs
    THEN [x \in DOMAIN hs |-> <<>>]
    ELSE hs

clear_history(hs, u) ==
    IF u \in DOMAIN hs
    THEN [x \in DOMAIN hs |-> IF x = u THEN <<>> ELSE hs[x]]
    ELSE hs

RECURSIVE SumLen(_, _)
SumLen(f, S) ==
    IF S = {} THEN 0
    ELSE LET x == CHOOSE y \in S : TRUE IN Len(f[x]) + SumLen(f, S \ {x})

HistInit ==
    /\ max_length \in 0..MaxTurns
    /\ histories = [x \in {} |-> <<>>]
    /\ added = [u \in UserIds |-> <<>>]
    /\ got = NoGot
    /\ lastCall = NoCall
    /\ RetryIdle
    /\ QueryIdle
    /\ ExtraIdle

AddMessage(u, role, content) ==
    /\ SumLen(added, UserIds) < MaxAdds
    /\ histories' = add_message(histories, max_length, u, role, content)
    /\ added' = [added EXCEPT ![u] = Append(@, Message(role, content))]
    /\ got' = NoGot
    /\ lastCall' = [op |-> "add_message", user |-> u]
    /\ UNCHANGED max_length

GetHistory(u) ==
    /\ got' = [user |-> u, result |-> get_history(histories, u)]
    /\ histories' = get_history_store(histories, u)
    /\ lastCall' = [op |-> "get_history", user |-> u]
    /\ UNCHANGED <<max_length, added>>

ClearHistory(u) ==
    /\ histories' = clear_history(histories, u)
    /\ added' = [added EXCEPT ![u] = <<>>]
    /\ got' = NoGot
    /\ lastCall' = [op |-> "clear_history", user |-> u]
    /\ UNCHANGED max_length

HistNext ==
    \/ (\E u \in UserIds, r \in Roles, c \in Contents : AddMessage(u, r, c))
          /\ UNCHANGED othersOfHist
    \/ (\E u \in UserIds : GetHistory(u)) /\ UNCHANGED othersOfHist
    \/ (\E u \in UserIds : ClearHistory(u)) /\ UNCHANGED othersOfHist

SpecHistory == HistInit /\ [][HistNext]_vars

(***************************************************************************)
(* ai_models: the two backend adapters and MultiModelOrchestrator.         *)
(* The literals of the synthesis prompt are written as one element each;   *)
(* the question and the two answers are embedded character by character.   *)
(***************************************************************************)
ClaudeMaxRetries == 3
ClaudeBaseDelay == 1
GptMaxRetries == 3
GptBaseDelay == 1
max_synthesis_length == 2000
SmallCeiling == 4

MaxRetriesOf(b) == IF b = "claude" THEN ClaudeMaxRetries ELSE GptMaxRetries
BaseDelayOf(b) == IF b = "claude" THEN ClaudeBaseDelay ELSE GptBaseDelay
\* the adapter a caller goes through: the synthesis call uses GPT
AdapterOf(who) == IF who = "synth" THEN "gpt" ELSE who
BackendName(b) == IF b = "claude" THEN "Claude" ELSE "GPT-4"

\* "⚠️ Claude temporarily unavailable"
ClaudePlaceholder ==
    <<"U+26A0", "U+FE0F", " ", "C", "l", "a", "u", "d", "e", " ", "t",
      "e", "m", "p", "o", "r", "a", "r", "i", "l", "y", " ", "u", "n",
      "a", "v", "a", "i", "l", "a", "b", "l", "e">>

\* "⚠️ GPT-4 temporarily unavailable"
GptPlaceholder ==
    <<"U+26A0", "U+FE0F", " ", "G", "P", "T", "-", "4", " ", "t", "e",
      "m", "p", "o", "r", "a", "r", "i", "l", "y", " ", "u", "n", "a",
      "v", "a", "i", "l", "a", "b", "l", "e">>

\* Exception("Both models failed"), created in query_both
BothModelsFailed ==
    [cls |-> "Exception", msg |-> <<"Both models failed">>, at |-> <<"query_both">>]

\* What a backend API call can raise: the SDK's RateLimitError (a subclass of
\* its APIError), another APIError, or an exception that is no APIError.
ApiExcClasses == {"RateLimitError", "APIError", "TypeError"}
IsRateLimitError(e) == e.cls = "RateLimitError"
IsAPIError(e) == e.cls \in {"RateLimitError", "APIError"}

\* The except clauses of generate_response: the exception it raises for the
\* exception e of the API call; `at` identifies a newly created exception.
\* except clauses in the other order: APIError before RateLimitError
adapter_failure_ApiErrorFirst(b, e, at) ==
    IF IsAPIError(e)
    THEN [cls |-> "Exception",
          msg |-> <<BackendName(b), " API error: ">> \o e.msg, at |-> at]
    ELSE IF IsRateLimitError(e)
    THEN [cls |-> "Exception",
          msg |-> <<"Rate limit exceeded. Please try again later.">>, at |-> at]
    ELSE e

adapter_failure(b, e, at) ==
    IF IsRateLimitError(e)
    THEN [cls |-> "Exception",
          msg |-> <<"Rate limit exceeded. Please try again later.">>, at |-> at]
    ELSE IF IsAPIError(e)
    THEN [cls |-> "Exception",
          msg |-> <<BackendName(b), " API error: ">> \o e.msg, at |-> at]
    ELSE e

\* A messages list with the new user message ahead of the history.
BuildMessages_MessageFirst(message, history) ==
    <<Message("user", message)>> \o history

\* The messages list of generate_response: the history, when it is given and
\* not empty, then the new user message.
BuildMessages(message, history) ==
    history \o <<Message("user", message)>>

\* The text generate_response returns for the API's answer.
adapter_result(raw, ceiling) == truncate_text(raw, ceiling)

\* A synthesis prompt that embeds the two answers as they are.
SynthesisPrompt_Untruncated(original_message, claude_response, gpt_response) ==
    <<"You are a synthesis AI. [...] User Question: ">> \o original_message
    \o <<"Claude's Response: ">> \o claude_response
    \o <<"GPT-4's Response: ">> \o gpt_response
    \o <<"Provide a synthesized answer that: [...] Synthesized Answer:">>

\* synthesis_prompt of _synthesize_responses
SynthesisPrompt(original_message, claude_response, gpt_response) ==
    LET claude_truncated == truncate_text(claude_response, max_synthesis_length)
        gpt_truncated == truncate_text(gpt_response, max_synthesis_length)
    IN <<"You are a synthesis AI. [...] User Question: ">> \o original_message
       \o <<"Claude's Response: ">> \o claude_truncated
       \o <<"GPT-4's Response: ">> \o gpt_truncated
       \o <<"Provide a synthesized answer that: [...] Synthesized Answer:">>

\* query_both returning the substituted claude_response as the answer when
\* Claude failed.
query_both_settle_AnswerIsPrimary(c, g) ==
    IF c.kind = "raise"
    THEN IF g.kind = "raise"
         THEN [next |-> "done", out |-> Raised(BothModelsFailed)]
         ELSE [next |-> "done",
               out |-> Returned(<<ClaudePlaceholder, ClaudePlaceholder, g.val>>)]
    ELSE IF g.kind = "raise"
         THEN [next |-> "done",
               out |-> Returned(<<c.val, c.val, GptPlaceholder>>)]
         ELSE [next |-> "synth", out |-> Pending]

\* query_both with the GPT-4 failure branch written like the Claude one.
query_both_settle_GptBranchCopied(c, g) ==
    IF c.kind = "raise"
    THEN IF g.kind = "raise"
         THEN [next |-> "done", out |-> Raised(BothModelsFailed)]
         ELSE [next |-> "done",
               out |-> Returned(<<g.val, ClaudePlaceholder, g.val>>)]
    ELSE IF g.kind = "raise"
         THEN [next |-> "done",
               out |-> Returned(<<c.val, GptPlaceholder, c.val>>)]
         ELSE [next |-> "synth", out |-> Pending]

\* query_both without the nested check for a second failure.
query_both_settle_NoDualCheck(c, g) ==
    IF c.kind = "raise"
    THEN IF g.kind = "raise"
         THEN [next |-> "done",
               out |-> Returned(<<GptPlaceholder, ClaudePlaceholder, GptPlaceholder>>)]
         ELSE [next |-> "done",
               out |-> Returned(<<g.val, ClaudePlaceholder, g.val>>)]
    ELSE IF g.kind = "raise"
         THEN [next |-> "done",
               out |-> Returned(<<c.val, c.val, GptPlaceholder>>)]
         ELSE [next |-> "synth", out |-> Pending]

\* query_both that puts the GPT-4 placeholder into the synthesized field.
query_both_settle_SentinelAsAnswer(c, g) ==
    IF c.kind = "raise"
    THEN IF g.kind = "raise"
         THEN [next |-> "done", out |-> Raised(BothModelsFailed)]
         ELSE [next |-> "done",
               out |-> Returned(<<g.val, ClaudePlaceholder, g.val>>)]
    ELSE IF g.kind = "raise"
         THEN [next |-> "done",
               out |-> Returned(<<GptPlaceholder, c.val, GptPlaceholder>>)]
         ELSE [next |-> "synth", out |-> Pending]

\* query_both after the gather: what it does with the two settled calls.
\* c and g are the outcomes of the Claude and the GPT-4 call.
query_both_settle(c, g) ==
    IF c.kind = "raise"
    THEN IF g.kind = "raise"
         THEN [next |-> "done", out |-> Raised(BothModelsFailed)]
         ELSE [next |-> "done",
               out |-> Returned(<<g.val, ClaudePlaceholder, g.val>>)]
    ELSE IF g.kind = "raise"
         THEN [next |-> "done",
               out |-> Returned(<<c.val, c.val, GptPlaceholder>>)]
         ELSE [next |-> "synth", out |-> Pending]

\* A fallback to the answer as it was cut for the prompt.
synthesize_result_FallbackTruncated(s, claude_response, gpt_response) ==
    IF s.kind = "return"
    THEN Returned(s.val)
    ELSE Returned(truncate_text(claude_response, max_synthesis_length))

\* The fallback whatever the synthesis call gave.
synthesize_result_AlwaysFallback(s, claude_response, gpt_response) ==
    Returned(claude_response)

\* No fallback: the failure of the synthesis call propagates.
synthesize_result_Propagate(s, claude_response, gpt_response) ==
    IF s.kind = "return" THEN Returned(s.val) ELSE s

\* _synthesize_responses once its GPT-4 call has returned or raised (s):
\* the synthesized text, or Claude's response when the call failed.
synthesize_result(s, claude_response, gpt_response) ==
    IF s.kind = "return" THEN Returned(s.val) ELSE Returned(claude_response)

\* query_both after _synthesize_responses: the triple, or what it raised.
query_both_finish(r, claude_response, gpt_response) ==
    IF r.kind = "return"
    THEN Returned(<<r.val, claude_response, gpt_response>>)
    ELSE r

Questions == {<<"q">>}
Histories == {<<>>, <<Message("user", <<"x">>), Message("assistant", <<"y">>)>>}
CeilingChoices == {SmallCeiling, DefaultMaxMessageLength}
RawTexts == {<<"a">>, Rep("m", SmallCeiling + 1), Rep("z", max_synthesis_length + 1)}
SynthTexts == {<<"s">>, Rep("t", SmallCeiling + 1)}

ApiExc(who, c, n) == [cls |-> c, msg |-> <<"api">>, at |-> <<who, "api", n>>]

QueryInit ==
    /\ max_message_length \in CeilingChoices
    /\ qpc = "idle"
    /\ qmsg = <<>>
    /\ qhist = <<>>
    /\ tasks = [b \in Backends |-> WrapperIdle]
    /\ sw = WrapperIdle
    /\ sent = [b \in Backends |-> <<>>]
    /\ synthCount = 0
    /\ synthPrompt = <<>>
    /\ qret = Pending
    /\ lastApiExc = [who \in Callers |-> NoExc]
    /\ RetryIdle
    /\ HistIdle
    /\ ExtraIdle

\* query_both is called: asyncio.gather starts both generate_response calls,
\* each of which builds its messages and issues its first API call.
QueryBoth(message, history) ==
    /\ qpc = "idle"
    /\ qpc' = "gather"
    /\ qmsg' = message
    /\ qhist' = history
    /\ tasks' = [b \in Backends |-> WrapperEnter(MaxRetriesOf(b))]
    /\ sent' = [b \in Backends |-> <<BuildMessages(message, history)>>]
    /\ UNCHANGED <<max_message_length, lastApiExc, sw, synthCount, synthPrompt, qret>>

\* The API call of backend b returns the text raw.
BackendReturns(b, raw) ==
    /\ qpc = "gather"
    /\ tasks[b].pc = "call"
    /\ tasks' = [tasks EXCEPT
                   ![b] = WrapperOnReturn(@, adapter_result(raw, max_message_length))]
    /\ UNCHANGED <<max_message_length, lastApiExc, qpc, qmsg, qhist, sw, sent,
                   synthCount, synthPrompt, qret>>

\* The API call of backend b raises an exception of class c.
BackendRaises(b, c) ==
    /\ qpc = "gather"
    /\ tasks[b].pc = "call"
    /\ LET e == adapter_failure(b, ApiExc(b, c, tasks[b].calls), <<b, tasks[b].calls>>)
       IN tasks' = [tasks EXCEPT
                      ![b] = WrapperOnRaise(@, e, MaxRetriesOf(b), BaseDelayOf(b))]
    /\ lastApiExc' = [lastApiExc EXCEPT ![b] = ApiExc(b, c, tasks[b].calls)]
    /\ UNCHANGED <<max_message_length, qpc, qmsg, qhist, sw, sent,
                   synthCount, synthPrompt, qret>>

\* The backoff sleep of backend b's wrapper ends: the next attempt builds the
\* messages again and issues the next API call.
BackendWakes(b) ==
    /\ qpc = "gather"
    /\ tasks[b].pc = "sleep"
    /\ tasks' = [tasks EXCEPT ![b] = WrapperWake(@)]
    /\ sent' = [sent EXCEPT ![b] = Append(@, BuildMessages(qmsg, qhist))]
    /\ UNCHANGED <<max_message_length, lastApiExc, qpc, qmsg, qhist, sw,
                   synthCount, synthPrompt, qret>>

\* Both gathered calls have settled and query_both resumes: it returns,
\* raises, or calls _synthesize_responses, which issues its GPT-4 call.
\* a gather that ends as soon as one of the calls has raised
gather_settled_FirstException(ts) ==
    \/ \A b \in Backends : ts[b].pc = "done"
    \/ \E b \in Backends : ts[b].pc = "done" /\ ts[b].outcome.kind = "raise"

\* a wait that resumes query_both as soon as one of the calls has finished
gather_settled_FirstCompleted(ts) == \E b \in Backends : ts[b].pc = "done"

\* asyncio.gather(..., return_exceptions=True) resumes query_both when every
\* call has returned or raised
gather_settled(ts) == \A b \in Backends : ts[b].pc = "done"

GatherSettles ==
    /\ qpc = "gather"
    /\ gather_settled(tasks)
    /\ LET d == query_both_settle(tasks["claude"].outcome, tasks["gpt"].outcome)
           prompt == SynthesisPrompt(qmsg, tasks["claude"].outcome.val,
                                     tasks["gpt"].outcome.val)
       IN /\ qpc' = d.next
          /\ qret' = d.out
          /\ IF d.next = "synth"
             THEN /\ synthCount' = synthCount + 1
                  /\ synthPrompt' = prompt
                  /\ sw' = WrapperEnter(GptMaxRetries)
                  /\ sent' = [sent EXCEPT
                                !["gpt"] = Append(@, BuildMessages(prompt, <<>>))]
             ELSE UNCHANGED <<synthCount, synthPrompt, sw, sent>>
    /\ UNCHANGED <<max_message_length, lastApiExc, qmsg, qhist, tasks>>

\* The synthesis wrapper frame f has just been stepped: when it is done,
\* _synthesize_responses and then query_both finish in the same step.
SynthStep(f) ==
    /\ sw' = f
    /\ IF f.pc = "done"
       THEN /\ qpc' = "done"
            /\ qret' = query_both_finish(
                          synthesize_result(f.outcome,
                                            tasks["claude"].outcome.val,
                                            tasks["gpt"].outcome.val),
                          tasks["claude"].outcome.val,
                          tasks["gpt"].outcome.val)
       ELSE UNCHANGED <<qpc, qret>>

\* The synthesis API call returns the text raw.
SynthReturns(raw) ==
    /\ qpc = "synth"
    /\ sw.pc = "call"
    /\ SynthStep(WrapperOnReturn(sw, adapter_result(raw, max_message_length)))
    /\ UNCHANGED <<max_message_length, lastApiExc, qmsg, qhist, tasks, sent,
                   synthCount, synthPrompt>>

\* The synthesis API call raises an exception of class c.
SynthRaises(c) ==
    /\ qpc = "synth"
    /\ sw.pc = "call"
    /\ LET e == adapter_failure("gpt", ApiExc("synth", c, sw.calls), <<"synth", sw.calls>>)
       IN SynthStep(WrapperOnRaise(sw, e, GptMaxRetries, GptBaseDelay))
    /\ lastApiExc' = [lastApiExc EXCEPT !["synth"] = ApiExc("synth", c, sw.calls)]
    /\ UNCHANGED <<max_message_length, qmsg, qhist, tasks, sent,
                   synthCount, synthPrompt>>

\* The backoff sleep of the synthesis call's wrapper ends.
SynthWakes ==
    /\ qpc = "synth"
    /\ sw.pc = "sleep"
    /\ sw' = WrapperWake(sw)
    /\ sent' = [sent EXCEPT !["gpt"] = Append(@, BuildMessages(synthPrompt, <<>>))]
    /\ UNCHANGED <<max_message_length, lastApiExc, qpc, qmsg, qhist, tasks,
                   synthCount, synthPrompt, qret>>

QueryNext ==
    \/ (\E m \in Questions, h \in Histories : QueryBoth(m, h))
          /\ UNCHANGED othersOfQuery
    \/ (\E b \in Backends, raw \in RawTexts : BackendReturns(b, raw))
          /\ UNCHANGED othersOfQuery
    \/ (\E b \in Backends, c \in ApiExcClasses : BackendRaises(b, c))
          /\ UNCHANGED othersOfQuery
    \/ (\E b \in Backends : BackendWakes(b)) /\ UNCHANGED othersOfQuery
    \/ GatherSettles /\ UNCHANGED othersOfQuery
    \/ (\E raw \in SynthTexts : SynthReturns(raw)) /\ UNCHANGED othersOfQuery
    \/ (\E c \in ApiExcClasses : SynthRaises(c)) /\ UNCHANGED othersOfQuery
    \/ SynthWakes /\ UNCHANGED othersOfQuery

SpecQuery == QueryInit /\ [][QueryNext]_vars

\* Every step but the call of query_both itself: an API call that comes back,
\* a sleep that ends, the event loop resuming query_both.
QueryProgress ==
    \/ (\E b \in Backends, raw \in RawTexts : BackendReturns(b, raw))
          /\ UNCHANGED othersOfQuery
    \/ (\E b \in Backends, c \in ApiExcClasses : BackendRaises(b, c))
          /\ UNCHANGED othersOfQuery
    \/ (\E b \in Backends : BackendWakes(b)) /\ UNCHANGED othersOfQuery
    \/ GatherSettles /\ UNCHANGED othersOfQuery
    \/ (\E raw \in SynthTexts : SynthReturns(raw)) /\ UNCHANGED othersOfQuery
    \/ (\E c \in ApiExcClasses : SynthRaises(c)) /\ UNCHANGED othersOfQuery
    \/ SynthWakes /\ UNCHANGED othersOfQuery

\* query_both under the assumption that every API call comes back and that
\* the event loop runs what is ready
SpecQueryLive == QueryInit /\ [][QueryNext]_vars /\ WF_vars(QueryProgress)

\* query_both with the order recorded in which the two gathered calls
\* finish: gather is told of each call's end when it happens and returns
\* the results in the order of its arguments
QueryOrderNext ==
    \/ (\E m \in Questions, h \in Histories : QueryBoth(m, h))
          /\ UNCHANGED <<settled, othersOfOrder>>
    \/ (\E b \in Backends, raw \in RawTexts :
           BackendReturns(b, raw) /\ settled' = Append(settled, b))
          /\ UNCHANGED othersOfOrder
    \/ (\E b \in Backends, c \in ApiExcClasses :
           /\ BackendRaises(b, c)
           /\ settled' = IF tasks'[b].pc = "done" THEN Append(settled, b)
                                                  ELSE settled)
          /\ UNCHANGED othersOfOrder
    \/ (\E b \in Backends : BackendWakes(b))
          /\ UNCHANGED <<settled, othersOfOrder>>
    \/ GatherSettles /\ UNCHANGED <<settled, othersOfOrder>>
    \/ (\E raw \in SynthTexts : SynthReturns(raw))
          /\ UNCHANGED <<settled, othersOfOrder>>
    \/ (\E c \in ApiExcClasses : SynthRaises(c))
          /\ UNCHANGED <<settled, othersOfOrder>>
    \/ SynthWakes /\ UNCHANGED <<settled, othersOfOrder>>

SpecQueryOrder == QueryInit /\ [][QueryOrderNext]_vars

(***************************************************************************)
(* truncate_text on its own: one text, one ceiling, truncated and then     *)
(* truncated again with the same ceiling.                                  *)
(***************************************************************************)
MaxTextLen == 5
MaxCeiling == 5

RECURSIVE TextsOfLen(_)
TextsOfLen(n) ==
    IF n = 0 THEN {<<>>}
    ELSE {Append(t, c) : t \in TextsOfLen(n - 1), c \in {"a", "."}}

\* short texts over a letter and the marker's character, and texts around
\* the two ceilings the program uses by default
TruncTexts ==
    UNION {TextsOfLen(n) : n \in 0..MaxTextLen}
      \cup {Rep("a", max_synthesis_length), Rep("a", max_synthesis_length + 1),
            Rep("a", DefaultMaxMessageLength), Rep("a", DefaultMaxMessageLength + 1)}

\* int(os.getenv('MAX_MESSAGE_LENGTH', '4000')) accepts every integer
TruncCeilings == (0..MaxCeiling) \cup {max_synthesis_length, DefaultMaxMessageLength}

TruncInit ==
    /\ tpc = "start"
    /\ tText \in TruncTexts
    /\ tCeil \in TruncCeilings
    /\ tOut1 = <<>>
    /\ tOut2 = <<>>
    /\ RetryIdle
    /\ HistIdle
    /\ QueryIdle
    /\ DocIdle
    /\ StartIdle
    /\ HandIdle
    /\ OrderIdle

Truncate ==
    /\ tpc = "start"
    /\ tOut1' = truncate_text(tText, tCeil)
    /\ tpc' = "once"
    /\ UNCHANGED <<tText, tCeil, tOut2>>

TruncateAgain ==
    /\ tpc = "once"
    /\ tOut2' = truncate_text(tOut1, tCeil)
    /\ tpc' = "twice"
    /\ UNCHANGED <<tText, tCeil, tOut1>>

TruncNext ==
    \/ Truncate /\ UNCHANGED othersOfTrunc
    \/ TruncateAgain /\ UNCHANGED othersOfTrunc

SpecTruncate == TruncInit /\ [][TruncNext]_vars

(***************************************************************************)
(* bot.handle_document: a document or photo upload.  The handler runs      *)
(* without suspension from the end of the download to its last reply: the  *)
(* lookup of the analysis method on the Claude adapter fails before any    *)
(* await is reached.                                                       *)
(***************************************************************************)
RECURSIVE LStrip(_)
LStrip(t) == IF t # <<>> /\ Head(t) = " " THEN LStrip(Tail(t)) ELSE t

RECURSIVE RStrip(_)
RStrip(t) ==
    IF t # <<>> /\ t[Len(t)] = " " THEN RStrip(SubSeq(t, 1, Len(t) - 1)) ELSE t

\* utils.sanitize_input; "NUL" is the character \x00
sanitize_input(text, maxlen) ==
    IF text = <<>>
    THEN <<>>
    ELSE SelectSeq(PySliceTo(RStrip(LStrip(text)), maxlen), LAMBDA c : c # "NUL")

\* the methods class ClaudeModel defines
ClaudeModelMethods == {"__init__", "generate_response"}

AttributeError(name) ==
    [cls |-> "AttributeError",
     msg |-> <<"'ClaudeModel' object has no attribute '", name, "'">>,
     at |-> <<"bot", "handle_document">>]

\* orchestrator.claude.<name>
claude_getattr(name) ==
    IF name \in ClaudeModelMethods
    THEN Returned(<<name>>)
    ELSE Raised(AttributeError(name))

SupportedExtensions == {".pdf", ".png", ".jpg", ".jpeg"}
DefaultDocPrompt == <<"Analyze this construction plan or document in detail. ...">>
PageNote == <<"\n\n(Note: This is page 1 of ", "2", " pages in the PDF)">>
PleaseUpload == <<"U+26A0", "U+FE0F", " Please upload a document or photo.">>
UnsupportedFormat == <<"U+26A0", "U+FE0F", " Unsupported file format: ">>
FileTooLarge == <<"U+26A0", "U+FE0F", " File too large">>
ProcessingDocument == <<"Processing your document...">>
NoImagesInPdf == <<"U+26A0", "U+FE0F", " Could not extract images from PDF.">>
ErrorProcessingPdf == <<"U+26A0", "U+FE0F", " Error processing PDF: ">>
ErrorAnalyzingDocument == <<"U+26A0", "U+FE0F", " Error analyzing document: ">>
FriendlyError ==
    <<"U+26A0", "U+FE0F", " I encountered an issue processing your request. Please try again later.">>

DocCaptions == {<<>>, <<"q">>, <<" ", "p", "l", "a", "n", "NUL", "s", " ">>}

DocUploads ==
    [user : UserIds, kind : {"none", "document", "photo"},
     ext : {".pdf", ".png", ".txt"}, big : BOOLEAN,
     caption : DocCaptions, pdf : {"raises", "empty", "one", "many"}]

\* the store before the upload: empty, or one earlier exchange of user 1
DocStores ==
    {[x \in {} |-> <<>>],
     [x \in {1} |-> <<Message("user", <<"x">>), Message("assistant", <<"y">>)>>]}

DocInit ==
    /\ DocIdle
    /\ max_length = MaxTurns
    /\ histories \in DocStores
    /\ added = [u \in UserIds |-> get_history(histories, u)]
    /\ got = NoGot
    /\ lastCall = NoCall
    /\ max_message_length \in CeilingChoices
    /\ qpc = "idle"
    /\ qmsg = <<>>
    /\ qhist = <<>>
    /\ tasks = [b \in Backends |-> WrapperIdle]
    /\ sw = WrapperIdle
    /\ sent = [b \in Backends |-> <<>>]
    /\ synthCount = 0
    /\ synthPrompt = <<>>
    /\ qret = Pending
    /\ lastApiExc = [who \in Callers |-> NoExc]
    /\ RetryIdle
    /\ TruncIdle
    /\ StartIdle
    /\ HandIdle
    /\ OrderIdle

\* lines 386-427: the checks before the download
DocReceive(up) ==
    /\ dpc \in {"idle", "done"}
    /\ dUpload' = up
    /\ dPrompt' = <<>>
    /\ dHist' = <<>>
    /\ IF up.kind = "none"
       THEN dpc' = "done" /\ dOutcome' = "no_file" /\ dReply' = PleaseUpload
       ELSE IF up.kind = "document" /\ up.ext \notin SupportedExtensions
       THEN /\ dpc' = "done"
            /\ dOutcome' = "unsupported"
            /\ dReply' = UnsupportedFormat \o <<up.ext>>
       ELSE IF up.big
       THEN dpc' = "done" /\ dOutcome' = "too_large" /\ dReply' = FileTooLarge
       ELSE /\ dpc' = "download"
            /\ dOutcome' = "none"
            /\ dReply' = ProcessingDocument
    /\ UNCHANGED histVars

\* lines 430-431 raise: the handler's outer except (492-494)
DocDownloadFails ==
    /\ dpc = "download"
    /\ dpc' = "done"
    /\ dOutcome' = "handler_error"
    /\ dReply' = FriendlyError
    /\ UNCHANGED <<dUpload, dPrompt, dHist>>
    /\ UNCHANGED histVars

\* lines 432-490, from the downloaded bytes to the last edit of the reply
DocDownloaded ==
    /\ dpc = "download"
    /\ LET up == dUpload
           caption == IF up.caption # <<>> THEN up.caption ELSE DefaultDocPrompt
           prompt == sanitize_input(caption, max_message_length)
           history == get_history(histories, up.user)
           isPdf == up.kind = "document" /\ up.ext = ".pdf"
           method == claude_getattr("analyze_image")
       IN /\ dHist' = history
          /\ got' = [user |-> up.user, result |-> history]
          /\ lastCall' = [op |-> "get_history", user |-> up.user]
          /\ histories' = get_history_store(histories, up.user)
          /\ IF isPdf /\ up.pdf = "raises"
             THEN /\ dPrompt' = prompt
                  /\ dpc' = "done"
                  /\ dOutcome' = "pdf_error"
                  /\ dReply' = ErrorProcessingPdf \o <<"failed">>
             ELSE IF isPdf /\ up.pdf = "empty"
             THEN /\ dPrompt' = prompt
                  /\ dpc' = "done"
                  /\ dOutcome' = "pdf_empty"
                  /\ dReply' = NoImagesInPdf
             ELSE /\ dPrompt' = IF isPdf /\ up.pdf = "many"
                                THEN prompt \o PageNote ELSE prompt
                  /\ IF method.kind = "raise"
                     THEN \* except Exception as e (488-490): nothing was appended
                          /\ dpc' = "done"
                          /\ dOutcome' = "analysis_error"
                          /\ dReply' = ErrorAnalyzingDocument \o method.exc.msg
                     ELSE \* ClaudeModel defines no such method: nothing to run
                          /\ dpc' = "analyze"
                          /\ dOutcome' = "none"
                          /\ dReply' = ProcessingDocument
    /\ UNCHANGED <<dUpload, max_length, added>>

DocNext ==
    \/ \E up \in DocUploads : DocReceive(up) /\ UNCHANGED othersOfDoc
    \/ DocDownloadFails /\ UNCHANGED othersOfDoc
    \/ DocDownloaded /\ UNCHANGED othersOfDoc

SpecDocument == DocInit /\ [][DocNext]_vars

(***************************************************************************)
(* The query handlers of bot.py (claude_command, gpt_command, both_command *)
(* and handle_message, whose try block is that of both_command) as         *)
(* coroutines of one event loop, two invocations at a time.  An action is  *)
(* what one coroutine runs between two suspension points.                  *)
(*                                                                         *)
(* Lists are objects: get_history hands out the very list the store holds  *)
(* for the user (utils.py:156), add_message appends to that list in place  *)
(* (137) and binds the user to a new list only when it trims (144).  An    *)
(* invocation's history is therefore a reference: "live" while it is the   *)
(* list the store holds, "own" once the store holds another list (or when  *)
(* get_history made a new empty list for a user without entry); hist is    *)
(* the contents of an own list.                                            *)
(***************************************************************************)
HandlerKinds == {"claude_command", "gpt_command", "both_command"}
BackendOfKind(k) == IF k = "claude_command" THEN "claude" ELSE "gpt"
IsSingle(k) == k \in {"claude_command", "gpt_command"}

SlotTag(s) == IF s = 1 THEN "#1" ELSE "#2"
\* the text of the update handled by invocation s, and the answers its API
\* calls give
QuestionOf(s) == <<" ", "q", SlotTag(s)>>
AnswerOf(s, c) == <<c, SlotTag(s)>>

UsageReply == <<"Please provide a message after the command.">>
SingleReply(k, response) ==
    <<IF k = "claude_command" THEN "Claude:" ELSE "GPT-4:">> \o response

\* utils.format_synthesized_response
format_synthesized_response(synthesized, claude_resp, gpt_resp) ==
    <<"Synthesized Answer:">> \o synthesized
       \o <<"---", "Claude's perspective:">> \o claude_resp
       \o <<"GPT-4's perspective:">> \o gpt_resp

\* the contents of the list invocation s holds as its history
Held(q, hs, s) ==
    IF q[s].ref = "live" THEN hs[q[s].user] ELSE q[s].hist

\* add_message as seen by the invocations: when it trims, the store gets a
\* new list and the list it held, the new message appended, stays with the
\* invocations that hold it
add_message_objects(q, hs, ml, u, role, content) ==
    [s \in Slots |->
        IF q[s].ref = "live" /\ q[s].user = u /\ Len(hs[u]) + 1 > ml * 2
        THEN [q[s] EXCEPT !.ref = "own",
                          !.hist = Append(hs[u], Message(role, content))]
        ELSE q[s]]

\* one call of conversation_history.add_message on the store and the
\* invocations, st = [hs, q]
StoreAdd(st, ml, u, role, content) ==
    [hs |-> add_message(st.hs, ml, u, role, content),
     q |-> add_message_objects(st.q, st.hs, ml, u, role, content)]

\* a handler that stores the answer ahead of the user's message
handler_writes_AnswerFirst(st, ml, u, message, ok, answer) ==
    IF ok
    THEN StoreAdd(StoreAdd(st, ml, u, "assistant", answer),
                  ml, u, "user", message)
    ELSE st

\* a handler that stores the user's message although the query failed
handler_writes_KeepsQuestion(st, ml, u, message, ok, answer) ==
    IF ok
    THEN StoreAdd(StoreAdd(st, ml, u, "user", message),
                  ml, u, "assistant", answer)
    ELSE StoreAdd(st, ml, u, "user", message)

\* a handler that stores the user's message and not the answer
handler_writes_QuestionOnly(st, ml, u, message, ok, answer) ==
    IF ok THEN StoreAdd(st, ml, u, "user", message) ELSE st

\* what a handler does to the store once its query has returned (ok) or
\* raised: the two add_message calls of the try block, or nothing
handler_writes(st, ml, u, message, ok, answer) ==
    IF ok
    THEN StoreAdd(StoreAdd(st, ml, u, "user", message),
                  ml, u, "assistant", answer)
    ELSE st

\* messages = conversation_history: the history list itself gets the new
\* message appended
history_after_build_Aliased(message, history) ==
    Append(history, Message("user", message))

\* the history list after generate_response has built its messages:
\* messages is a new list, extended by the history
history_after_build(message, history) == history

\* generate_response of invocation s builds its messages from its history
BuildEffect(st, s, message) ==
    LET h == history_after_build(message, Held(st.q, st.hs, s))
    IN IF st.q[s].ref = "live"
       THEN [hs |-> [st.hs EXCEPT ![st.q[s].user] = h], q |-> st.q]
       ELSE [hs |-> st.hs, q |-> [st.q EXCEPT ![s].hist = h]]

Range(f) == {f[i] : i \in DOMAIN f}

SynthPromptOf(q, s) ==
    SynthesisPrompt(q[s].message, q[s].frames["claude"].outcome.val,
                    q[s].frames["gpt"].outcome.val)

\* an attempt of caller c begins in invocation s: generate_response builds
\* its messages, from the history as the list is now, and issues the API call
StartAttempt(st, s, c) ==
    IF c = "synth"
    THEN [hs |-> st.hs,
          q |-> [st.q EXCEPT
                   ![s].lastSent[c] = BuildMessages(SynthPromptOf(st.q, s), <<>>)]]
    ELSE LET m == st.q[s].message
             messages == BuildMessages(m, Held(st.q, st.hs, s))
             st1 == BuildEffect(st, s, m)
         IN [hs |-> st1.hs, q |-> [st1.q EXCEPT ![s].lastSent[c] = messages]]

\* the store before the handlers: empty, or one earlier exchange of user 1
HandStores == DocStores

HandInit ==
    /\ HandIdle
    /\ max_length \in 1..MaxTurns
    /\ histories \in HandStores
    /\ added = [u \in UserIds |-> get_history(histories, u)]
    /\ got = NoGot
    /\ lastCall = NoCall
    /\ RetryIdle
    /\ QueryIdle
    /\ TruncIdle
    /\ DocIdle
    /\ StartIdle
    /\ OrderIdle

\* a step of invocation s that ends with the coroutine suspended again
Suspends(st) ==
    /\ hq' = st.q
    /\ histories' = st.hs
    /\ UNCHANGED <<max_length, added, got, lastCall, hdone>>

\* the query of invocation s has returned or raised (out): the rest of the
\* try block or the except block, up to the reply
Finish(st, s, out) ==
    LET k == st.q[s].kind
        u == st.q[s].user
        m == st.q[s].message
        ok == out.kind = "return"
        answer == IF ~ok THEN <<>> ELSE IF IsSingle(k) THEN out.val ELSE out.val[1]
        reply == IF ~ok THEN FriendlyError
                 ELSE IF IsSingle(k) THEN SingleReply(k, out.val)
                 ELSE format_synthesized_response(out.val[1], out.val[2], out.val[3])
        st1 == handler_writes(st, max_length, u, m, ok, answer)
    IN /\ hq' = [st1.q EXCEPT
                   ![s] = [NoHandler EXCEPT
                             !.pc = "done", !.user = u, !.kind = k, !.message = m,
                             !.read = st.q[s].read, !.before = st.q[s].before,
                             !.qret = out, !.reply = reply,
                             !.events = st.q[s].events \o
                                 (IF ok THEN <<"add_user", "add_assistant", "reply">>
                                  ELSE <<"reply">>)]]
       /\ histories' = st1.hs
       /\ added' = IF ok
                   THEN [added EXCEPT ![u] = @ \o <<Message("user", m),
                                                    Message("assistant", answer)>>]
                   ELSE added
       /\ hdone' = IF ok THEN Append(hdone, s) ELSE hdone
       /\ lastCall' = IF ok THEN [op |-> "add_message", user |-> u] ELSE lastCall
       /\ got' = IF ok THEN NoGot ELSE got
       /\ UNCHANGED max_length

\* the wrapper frame of caller c in invocation s has become f
FrameStep(s, c, f) ==
    LET st == [hs |-> histories, q |-> [hq EXCEPT ![s].frames[c] = f]]
        cval == hq[s].frames["claude"].outcome.val
        gval == hq[s].frames["gpt"].outcome.val
    IN IF f.pc # "done" \/ (c # "synth" /\ ~IsSingle(hq[s].kind))
       THEN Suspends(st)
       ELSE IF c = "synth"
       THEN Finish(st, s, query_both_finish(
                             synthesize_result(f.outcome, cval, gval), cval, gval))
       ELSE Finish(st, s, f.outcome)

\* the handler is called with an update of user u; it runs to
\* `await update.message.chat.send_action(...)`, or replies and returns when
\* the update has no text
Receive(s, u, k, text) ==
    /\ hq[s].pc = "idle"
    \* invocations are numbered in the order of their updates
    /\ \A r \in Slots : r < s => hq[r].pc # "idle"
    \* the inputs hold at most one /both among the invocations
    /\ ~IsSingle(k) => \A r \in Slots : IsSingle(hq[r].kind) \/ hq[r].pc = "idle"
    /\ hq' = [hq EXCEPT ![s] =
                IF text = <<>>
                THEN [NoHandler EXCEPT !.pc = "done", !.user = u, !.kind = k,
                                       !.reply = UsageReply, !.events = <<"reply">>]
                ELSE [NoHandler EXCEPT !.pc = "typing", !.user = u, !.kind = k,
                                       !.message = text, !.before = Range(hdone)]]
    /\ UNCHANGED <<histVars, hdone>>

\* send_action has returned: sanitize_input, get_history and the call of the
\* query, which runs to its first await: for a single-backend command the
\* first API call, for query_both the gather of two tasks not yet started
Reads(s) ==
    /\ hq[s].pc = "typing"
    /\ LET u == hq[s].user
           k == hq[s].kind
           b == BackendOfKind(k)
           m == sanitize_input(hq[s].message, max_message_length)
           q1 == [hq EXCEPT
                    ![s].message = m,
                    ![s].ref = IF u \in DOMAIN histories THEN "live" ELSE "own",
                    ![s].read = get_history(histories, u),
                    ![s].events = <<"read", "dispatch">>,
                    ![s].pc = IF IsSingle(k) THEN "query" ELSE "gather"]
           st == [hs |-> get_history_store(histories, u), q |-> q1]
       IN /\ got' = [user |-> u, result |-> get_history(histories, u)]
          /\ lastCall' = [op |-> "get_history", user |-> u]
          /\ IF IsSingle(k)
             THEN LET st1 == StartAttempt(
                                [hs |-> st.hs,
                                 q |-> [st.q EXCEPT ![s].frames[b] =
                                           WrapperEnter(MaxRetriesOf(b))]], s, b)
                  IN hq' = st1.q /\ histories' = st1.hs
             ELSE hq' = st.q /\ histories' = st.hs
    /\ UNCHANGED <<max_length, added, hdone>>

\* a gathered generate_response task of query_both starts to run
TaskStarts(s, b) ==
    /\ hq[s].pc = "gather"
    /\ hq[s].frames[b].pc = "idle"
    /\ Suspends(StartAttempt(
          [hs |-> histories,
           q |-> [hq EXCEPT ![s].frames[b] = WrapperEnter(MaxRetriesOf(b))]], s, b))

\* the API call of caller c in invocation s returns
ApiReturns(s, c) ==
    /\ hq[s].pc \in {"query", "gather", "synth"}
    /\ hq[s].frames[c].pc = "call"
    /\ FrameStep(s, c, WrapperOnReturn(hq[s].frames[c],
                          adapter_result(AnswerOf(s, c), max_message_length)))

\* the API call of caller c in invocation s raises
ApiRaises(s, c) ==
    /\ hq[s].pc \in {"query", "gather", "synth"}
    /\ hq[s].frames[c].pc = "call"
    /\ LET f == hq[s].frames[c]
           e == adapter_failure(AdapterOf(c), ApiExc(c, "APIError", f.calls),
                                <<c, f.calls>>)
       IN FrameStep(s, c, WrapperOnRaise(f, e, MaxRetriesOf(AdapterOf(c)),
                                         BaseDelayOf(AdapterOf(c))))

\* the backoff sleep of caller c in invocation s ends: the next attempt
Wakes(s, c) ==
    /\ hq[s].pc \in {"query", "gather", "synth"}
    /\ hq[s].frames[c].pc = "sleep"
    /\ Suspends(StartAttempt(
          [hs |-> histories,
           q |-> [hq EXCEPT ![s].frames[c] = WrapperWake(@)]], s, c))

\* both gathered tasks of invocation s are done and query_both resumes: it
\* returns or raises to the handler, or goes on to the synthesis call
HandlerGatherSettles(s) ==
    /\ hq[s].pc = "gather"
    /\ gather_settled(hq[s].frames)
    /\ LET d == query_both_settle(hq[s].frames["claude"].outcome,
                                  hq[s].frames["gpt"].outcome)
           st == [hs |-> histories, q |-> hq]
       IN IF d.next = "synth"
          THEN Suspends(StartAttempt(
                  [hs |-> histories,
                   q |-> [hq EXCEPT ![s].pc = "synth",
                                    ![s].frames["synth"] =
                                        WrapperEnter(GptMaxRetries)]], s, "synth"))
          ELSE Finish(st, s, d.out)

HandNext ==
    \/ (\E s \in Slots, u \in UserIds, k \in HandlerKinds :
           \E text \in {<<>>, QuestionOf(s)} : Receive(s, u, k, text))
          /\ UNCHANGED othersOfHand
    \/ (\E s \in Slots : Reads(s)) /\ UNCHANGED othersOfHand
    \/ (\E s \in Slots, b \in Backends : TaskStarts(s, b)) /\ UNCHANGED othersOfHand
    \/ (\E s \in Slots, c \in Callers : ApiReturns(s, c)) /\ UNCHANGED othersOfHand
    \/ (\E s \in Slots, c \in Callers : ApiRaises(s, c)) /\ UNCHANGED othersOfHand
    \/ (\E s \in Slots, c \in Callers : Wakes(s, c)) /\ UNCHANGED othersOfHand
    \/ (\E s \in Slots : HandlerGatherSettles(s)) /\ UNCHANGED othersOfHand

SpecHandlers == HandInit /\ [][HandNext]_vars

(***************************************************************************)
(* Process start: `from config import config` runs Config() (config.py:83),*)
(* the rest of bot.py's import builds the orchestrator and its two         *)
(* adapters (bot.py:31), main() validates and starts polling; only then    *)
(* can a handler issue a backend call.                                     *)
(***************************************************************************)
MaxStartupCalls == 2

ValueError(key) ==
    [cls |-> "ValueError",
     msg |-> <<"Required environment variable ", key, " is not set">>,
     at |-> <<"config", "_get_required_env">>]

\* a check that lets an empty value through (value is None)
get_required_env_NoneOnly(e, key) ==
    IF e[key].isNone THEN Raised(ValueError(key)) ELSE Returned(e[key].str)

\* Config._get_required_env: `if not value` is true of None and of ""
get_required_env(e, key) ==
    IF e[key].isNone \/ e[key].str = <<>>
    THEN Raised(ValueError(key))
    ELSE Returned(e[key].str)

\* Config.__init__: the credentials are read in order, the first failure
\* leaves __init__
RECURSIVE Config_init(_, _, _)
Config_init(e, i, read) ==
    IF i > Len(Credentials)
    THEN [failed |-> FALSE, exc |-> NoExc, attrs |-> read]
    ELSE LET key == Credentials[i]
             r == get_required_env(e, key)
         IN IF r.kind = "raise"
            THEN [failed |-> TRUE, exc |-> r.exc, attrs |-> NoConfig]
            ELSE Config_init(e, i + 1,
                     [k \in (DOMAIN read) \cup {key} |->
                         IF k = key THEN r.val ELSE read[k]])

\* Config.validate
validate(c) ==
    /\ c["TELEGRAM_BOT_TOKEN"] # <<>>
    /\ c["ANTHROPIC_API_KEY"] # <<>>
    /\ c["OPENAI_API_KEY"] # <<>>

ApiKeyOf(b) == IF b = "claude" THEN "ANTHROPIC_API_KEY" ELSE "OPENAI_API_KEY"

EnvValues == {EnvNone, EnvStr(<<>>), EnvStr(<<"k">>), EnvStr(<<" ">>)}

StartInit ==
    /\ env \in [CredentialKeys -> EnvValues]
    /\ spc = "start"
    /\ cfg = NoConfig
    /\ adapters = NoConfig
    /\ startCalls = <<>>
    /\ RetryIdle
    /\ HistIdle
    /\ QueryIdle
    /\ TruncIdle
    /\ DocIdle
    /\ HandIdle
    /\ OrderIdle

\* bot.py:16 -> config.py:83
ImportConfig ==
    /\ spc = "start"
    /\ LET c == Config_init(env, 1, NoConfig)
       IN IF c.failed
          THEN spc' = "aborted" /\ cfg' = NoConfig
          ELSE spc' = "config" /\ cfg' = c.attrs
    /\ UNCHANGED <<env, adapters, startCalls>>

\* bot.py:31 -> MultiModelOrchestrator.__init__ -> ClaudeModel(), GPTModel()
ImportBot ==
    /\ spc = "config"
    /\ adapters' = [b \in Backends |-> cfg[ApiKeyOf(b)]]
    /\ spc' = "components"
    /\ UNCHANGED <<env, cfg, startCalls>>

\* bot.main
Main ==
    /\ spc = "components"
    /\ spc' = IF ~validate(cfg) THEN "exited" ELSE "polling"
    /\ UNCHANGED <<env, cfg, adapters, startCalls>>

\* a handler's query reaches self.client...create of adapter b
StartupBackendCall(b) ==
    /\ spc = "polling"
    /\ b \in DOMAIN adapters
    /\ Len(startCalls) < MaxStartupCalls
    /\ startCalls' = Append(startCalls, [backend |-> b, api_key |-> adapters[b]])
    /\ UNCHANGED <<env, spc, cfg, adapters>>

StartNext ==
    \/ ImportConfig /\ UNCHANGED othersOfStart
    \/ ImportBot /\ UNCHANGED othersOfStart
    \/ Main /\ UNCHANGED othersOfStart
    \/ \E b \in Backends : StartupBackendCall(b) /\ UNCHANGED othersOfStart

SpecStartup == StartInit /\ [][StartNext]_vars

(***************************************************************************)
(* Properties of the retry wrapper (SpecRetry).                            *)
(***************************************************************************)
AllAttemptsFailed == \A i \in 1..Len(opLog) : opLog[i].kind = "raise"

\* C7: when the wrapper has finished around an operation that failed on
\* every attempt, it has invoked the operation exactly max_retries times,
\* and the error it raises is the very exception object the operation's last
\* attempt raised (same class, message and identity); with a budget of at
\* least one attempt it does raise.
C7_RetryBoundLastFailure ==
    (w.pc = "done" /\ AllAttemptsFailed) =>
        /\ w.calls = max_retries
        /\ Len(opLog) = max_retries
        /\ w.outcome.kind = "raise" => w.outcome.exc = opLog[Len(opLog)].exc
        /\ max_retries >= 1 => w.outcome = Raised(opLog[max_retries].exc)

C7_Witness ==
    /\ w.pc = "done"
    /\ max_retries = 3
    /\ AllAttemptsFailed
    /\ w.outcome.kind = "raise"
    /\ opLog[1].exc.cls # opLog[3].exc.cls

\* C8: the wrapper returns normally only if some attempt of the operation
\* returned normally, and then it returns that attempt's value; in every
\* other case it raises.
C8_NeverSwallows ==
    w.pc = "done" =>
        \/ w.outcome.kind = "raise"
        \/ /\ w.outcome.kind = "return"
           /\ \E i \in 1..Len(opLog) : opLog[i] = Returned(w.outcome.val)

(***************************************************************************)
(* Properties of the conversation history (SpecHistory).                   *)
(***************************************************************************)
LastN(s, n) == SubSeq(s, Len(s) - n + 1, Len(s))

\* C9: every user's history has at most 2 * max_turns entries, after every
\* single add_message and clear_history.
C9_HistoryBound ==
    \A u \in DOMAIN histories : Len(histories[u]) <= 2 * max_length

\* C10: once more than 2 * max_turns messages have been added for a user
\* with no clear in between, get_history returns exactly 2 * max_turns
\* entries: the most recently added ones, in the order they were added.
C10_FifoEviction ==
    \A u \in UserIds :
        Len(added[u]) > 2 * max_length =>
            /\ Len(get_history(histories, u)) = 2 * max_length
            /\ get_history(histories, u) = LastN(added[u], 2 * max_length)

(***************************************************************************)
(* Properties of query_both (SpecQuery).                                   *)
(***************************************************************************)
Primary == tasks["claude"].outcome
Secondary == tasks["gpt"].outcome

\* No synthesis took place: _synthesize_responses was not called and GPT-4
\* received no API call beyond the attempts of its own gathered call.
NoSynthesis ==
    /\ synthCount = 0
    /\ sw.calls = 0
    /\ Len(sent["gpt"]) = tasks["gpt"].calls

\* C1: when the Claude call has failed after its retries and the GPT-4 call
\* returned s, query_both returns (s, Claude placeholder, s) and no
\* synthesis call is issued.
C1_PrimaryFailureDegrades ==
    (qpc = "done" /\ Primary.kind = "raise" /\ Secondary.kind = "return") =>
        /\ qret = Returned(<<Secondary.val, ClaudePlaceholder, Secondary.val>>)
        /\ NoSynthesis

C1_Witness ==
    /\ qpc = "done"
    /\ Primary.kind = "raise"
    /\ tasks["claude"].calls = ClaudeMaxRetries
    /\ Secondary = Returned(<<"a">>)
    /\ qret.kind = "return"

\* C2: when the GPT-4 call has failed after its retries and the Claude call
\* returned p, query_both returns (p, p, GPT-4 placeholder) and no synthesis
\* call is issued.
C2_SecondaryFailureDegrades ==
    (qpc = "done" /\ Secondary.kind = "raise" /\ Primary.kind = "return") =>
        /\ qret = Returned(<<Primary.val, Primary.val, GptPlaceholder>>)
        /\ NoSynthesis

C2_Witness ==
    /\ qpc = "done"
    /\ Secondary.kind = "raise"
    /\ tasks["gpt"].calls = GptMaxRetries
    /\ Primary = Returned(<<"a">>)
    /\ qret.kind = "return"

\* C3: when both calls have failed, query_both raises the both-models-failed
\* error: it returns no triple, so no placeholder reaches the caller, and no
\* synthesis call is issued.
C3_DualFailureTerminal ==
    (qpc = "done" /\ Primary.kind = "raise" /\ Secondary.kind = "raise") =>
        /\ qret = Raised(BothModelsFailed)
        /\ NoSynthesis

C3_Witness ==
    /\ qpc = "done"
    /\ Primary.kind = "raise"
    /\ Secondary.kind = "raise"
    /\ tasks["claude"].calls = ClaudeMaxRetries
    /\ tasks["gpt"].calls = GptMaxRetries
    /\ qret.kind = "raise"

\* An answer as the synthesis prompt must carry it: unchanged up to the
\* synthesis ceiling, else its first ceiling - 3 characters and the marker.
CutForSynthesis(t) ==
    IF Len(t) <= max_synthesis_length
    THEN t
    ELSE SubSeq(t, 1, max_synthesis_length - 3) \o <<".", ".", ".">>

SynthCallsSent ==
    {sent["gpt"][i] : i \in (tasks["gpt"].calls + 1)..Len(sent["gpt"])}

\* C4: when Claude returned a and GPT-4 returned b, the synthesizer is
\* invoked exactly once, its prompt embeds the question and both answers,
\* each cut to the 2000-character synthesis ceiling, every synthesis call
\* sends that prompt alone, and query_both returns (synthesized, a, b).
C4_DualSuccessSynthesizes ==
    (qpc \in {"synth", "done"} /\ Primary.kind = "return"
                                /\ Secondary.kind = "return") =>
        /\ synthCount = 1
        /\ Len(CutForSynthesis(Primary.val)) <= max_synthesis_length
        /\ Len(CutForSynthesis(Secondary.val)) <= max_synthesis_length
        /\ synthPrompt =
              <<"You are a synthesis AI. [...] User Question: ">> \o qmsg
              \o <<"Claude's Response: ">> \o CutForSynthesis(Primary.val)
              \o <<"GPT-4's Response: ">> \o CutForSynthesis(Secondary.val)
              \o <<"Provide a synthesized answer that: [...] Synthesized Answer:">>
        /\ sw.calls >= 1
        /\ SynthCallsSent = {<<Message("user", synthPrompt)>>}
        /\ qpc = "done" =>
              /\ qret.kind = "return"
              /\ Len(qret.val) = 3
              /\ qret.val[2] = Primary.val
              /\ qret.val[3] = Secondary.val
              /\ sw.outcome.kind = "return" => qret.val[1] = sw.outcome.val

C4_Witness ==
    /\ qpc = "done"
    /\ Primary.kind = "return"
    /\ Secondary.kind = "return"
    /\ Len(Primary.val) > max_synthesis_length
    /\ Primary.val # Secondary.val
    /\ sw.outcome = Returned(<<"s">>)
    /\ qret.val[1] = <<"s">>

\* C5: when both calls succeeded and the synthesis call failed, query_both
\* does not raise: it returns Claude's answer as it was (not cut to the
\* synthesis ceiling, not GPT-4's answer) as the synthesized field, with both
\* answers.
C5_SynthesisFallback ==
    (qpc = "done" /\ Primary.kind = "return" /\ Secondary.kind = "return"
                  /\ sw.outcome.kind = "raise") =>
        qret = Returned(<<Primary.val, Primary.val, Secondary.val>>)

C5_Witness ==
    /\ qpc = "done"
    /\ Primary.kind = "return"
    /\ Secondary.kind = "return"
    /\ sw.outcome.kind = "raise"
    /\ sw.calls = GptMaxRetries
    /\ Len(Primary.val) > max_synthesis_length
    /\ Primary.val # Secondary.val
    /\ qret.val[1] = Primary.val

BackendExceptions ==
    {tasks[b].last_exception : b \in Backends} \cup {sw.last_exception}

\* C6: query_both ends either raising the both-models-failed error or
\* returning a triple of three texts, none of them None; no exception of a
\* backend call or of the synthesis call reaches its caller.
C6_OnlyTripleOrBothFailed ==
    qpc = "done" =>
        \/ /\ qret = Raised(BothModelsFailed)
           /\ qret.exc \notin BackendExceptions
        \/ /\ qret.kind = "return"
           /\ Len(qret.val) = 3
           /\ \A b \in Backends : tasks[b].outcome.kind \in {"return", "raise"}
           /\ sw.pc = "done" => sw.outcome.kind \in {"return", "raise"}

C6_Witness ==
    /\ qpc = "done"
    /\ qret.kind = "return"
    /\ tasks["claude"].last_exception.cls = "TypeError"
    /\ sw.outcome.kind = "raise"
    /\ sw.outcome.exc.cls = "TypeError"

\* C11: get_history for a user id that has no entry returns the empty list
\* and leaves the dict as it was: no entry is created for that user.
C11_GetUnknownUser ==
    [][(lastCall'.op = "get_history" /\ lastCall'.user \notin DOMAIN histories) =>
          /\ got'.user = lastCall'.user
          /\ got'.result = <<>>
          /\ histories' = histories
          /\ DOMAIN histories' = DOMAIN histories]_vars

C11_Witness ==
    /\ lastCall.op = "get_history"
    /\ lastCall.user \notin DOMAIN histories
    /\ DOMAIN histories # {}
    /\ got.result = <<>>

\* C12: from clear_history(u) until the next add_message(u, ...) get_history(u)
\* returns the empty list; clear_history for a user id that has no entry
\* changes nothing.
C12_ClearResets ==
    /\ [](\A u \in UserIds :
             added[u] = <<>> => get_history(histories, u) = <<>>)
    /\ [][(lastCall'.op = "clear_history") =>
             /\ get_history(histories', lastCall'.user) = <<>>
             /\ lastCall'.user \notin DOMAIN histories => histories' = histories]_vars

C12_Witness ==
    /\ lastCall.op = "get_history"
    /\ lastCall.user \in DOMAIN histories
    /\ added[lastCall.user] = <<>>
    /\ got.result = <<>>
    /\ \E u \in UserIds : u # lastCall.user /\ Len(get_history(histories, u)) > 0

EndsWithSuffix(t) ==
    /\ Len(t) >= Len(Suffix)
    /\ SubSeq(t, Len(t) - Len(Suffix) + 1, Len(t)) = Suffix

\* C13: a text longer than the ceiling comes back with exactly the ceiling's
\* length and ends with the marker, a text at or under the ceiling comes back
\* unchanged, and so an adapter's answer is never longer than
\* max_message_length; for every ceiling the configuration accepts.
C13_TruncationContract ==
    tpc \in {"once", "twice"} =>
        /\ Len(tText) > tCeil => (Len(tOut1) = tCeil /\ EndsWithSuffix(tOut1))
        /\ Len(tText) <= tCeil => tOut1 = tText
        /\ Len(adapter_result(tText, tCeil)) <= tCeil

\* C14: truncating a truncated text again with the same ceiling changes
\* nothing, for every text and ceiling.
C14_TruncationIdempotent ==
    tpc = "twice" => tOut2 = tOut1

\* C15: the Claude adapter has an image-analysis operation under the retry
\* and truncation contract of generate_response: an analysis that fails was
\* attempted max_retries times, and a document handler that got as far as the
\* analysis either failed that way or appended the upload and the answer, cut
\* to the ceiling, to the user's history.
C15_ImageAnalysis ==
    /\ dOutcome = "analysis_error" => Len(sent["claude"]) = ClaudeMaxRetries
    /\ (dpc = "done" /\ dOutcome \notin {"no_file", "unsupported", "too_large",
                                        "handler_error", "pdf_error", "pdf_empty",
                                        "analysis_error"}) =>
           /\ Len(get_history(histories, dUpload.user)) >= Len(dHist) + 2
           /\ Len(LastN(get_history(histories, dUpload.user), 1)[1].content)
                  <= max_message_length

Missing(key) == env[key].isNone \/ env[key].str = <<>>

\* C16: with a required credential unset or empty, the import of config
\* fails: no adapter is ever constructed, the process never gets to polling
\* and no backend call is issued; and no backend call ever carries an empty
\* credential.
C16_MissingCredentialAborts ==
    /\ (\E key \in CredentialKeys : Missing(key)) =>
           /\ spc \in {"start", "aborted"}
           /\ DOMAIN adapters = {}
           /\ startCalls = <<>>
    /\ \A b \in DOMAIN adapters : adapters[b] # <<>>
    /\ \A i \in 1..Len(startCalls) : startCalls[i].api_key # <<>>

C16_Witness ==
    /\ spc = "aborted"
    /\ ~Missing("TELEGRAM_BOT_TOKEN")
    /\ ~env["ANTHROPIC_API_KEY"].isNone
    /\ Missing("ANTHROPIC_API_KEY")
    /\ ~Missing("OPENAI_API_KEY")

Peer(b) == IF b = "claude" THEN "gpt" ELSE "claude"

\* C17: query_both goes on only when both backend calls have settled: while
\* it waits, a step of one call leaves the other call's frame alone, a call
\* that ends in a failure has used all its attempts whatever its peer did,
\* and no synthesis call is issued before both calls are settled.
C17_BothAwaited ==
    /\ [](qpc \in {"synth", "done"} => \A b \in Backends : tasks[b].pc = "done")
    /\ []((synthCount > 0 \/ sw.calls > 0 \/ qret # Pending) =>
             \A b \in Backends : tasks[b].pc = "done")
    /\ [](\A b \in Backends :
             (tasks[b].pc = "done" /\ tasks[b].outcome.kind = "raise") =>
                 tasks[b].calls = MaxRetriesOf(b))
    /\ [][\A b \in Backends :
             (qpc = "gather" /\ tasks'[b] # tasks[b]) =>
                 (tasks'[Peer(b)] = tasks[Peer(b)] /\ qpc' = "gather")]_vars

C17_Witness ==
    /\ qpc = "gather"
    /\ tasks["claude"].pc = "done"
    /\ tasks["claude"].outcome.kind = "raise"
    /\ tasks["gpt"].pc = "call"
    /\ tasks["gpt"].calls = 2
    /\ sw.calls = 0

RECURSIVE SumSeq(_)
SumSeq(q) == IF q = <<>> THEN 0 ELSE Head(q) + SumSeq(Tail(q))

\* base_delay * (2^0 + 2^1 + ... + 2^(n-2)); the empty sum for n <= 1
RECURSIVE BackoffTotal(_, _)
BackoffTotal(bd, n) ==
    IF n <= 1 THEN 0 ELSE bd * Pow2(n - 2) + BackoffTotal(bd, n - 1)

Failures == Len(SelectSeq(opLog, LAMBDA o : o.kind = "raise"))

\* C18: the i-th sleep of the wrapper (i counted from 0) lasts
\* base_delay * 2^i; every failed attempt but the final one is followed by
\* one sleep, the final one by none; around an operation that always fails
\* the sleeps add up to base_delay * (2^0 + ... + 2^(max_retries-2)).
C18_BackoffSchedule ==
    /\ \A i \in 1..Len(w.sleeps) : w.sleeps[i] = base_delay * Pow2(i - 1)
    /\ w.pc = "sleep" => w.calls < max_retries
    /\ Len(w.sleeps) =
          IF w.pc = "done" /\ w.outcome.kind = "raise" THEN Failures - 1 ELSE Failures
    /\ (w.pc = "done" /\ AllAttemptsFailed) =>
          SumSeq(w.sleeps) = BackoffTotal(base_delay, max_retries)

C18_Witness ==
    /\ w.pc = "done"
    /\ AllAttemptsFailed
    /\ max_retries = 3
    /\ base_delay = 2
    /\ w.sleeps = <<2, 4>>
    /\ w.outcome.kind = "raise"

FixedRateLimitMessage == <<"Rate limit exceeded. Please try again later.">>

\* the step a wrapper frame takes when an attempt fails: back off and retry
\* while attempts remain, otherwise raise that attempt's exception
FailureStep(f, g, mr, bd) ==
    (f.pc = "call" /\ g.last_exception # f.last_exception) =>
        /\ g.calls = f.calls
        /\ IF f.calls < mr
           THEN /\ g.pc = "sleep"
                /\ g.sleeps = Append(f.sleeps, bd * Pow2(f.calls - 1))
                /\ g.outcome = Pending
           ELSE /\ g.pc = "done"
                /\ g.sleeps = f.sleeps
                /\ g.outcome = Raised(g.last_exception)

\* C19: whatever the kind of a failed attempt (rate limit, API error or any
\* other exception), the wrapper takes the same step: each failure uses one
\* attempt and is followed by the backoff and a retry while attempts remain;
\* a call ends in a failure only when its budget is used up.
C19_UniformRetry ==
    /\ [][/\ \A b \in Backends :
                FailureStep(tasks[b], tasks'[b], MaxRetriesOf(b), BaseDelayOf(b))
          /\ FailureStep(sw, sw', GptMaxRetries, GptBaseDelay)]_vars
    /\ [](\A b \in Backends :
             (tasks[b].pc = "done" /\ tasks[b].outcome.kind = "raise") =>
                 Len(tasks[b].sleeps) = MaxRetriesOf(b) - 1)
    /\ []((sw.pc = "done" /\ sw.outcome.kind = "raise") =>
             Len(sw.sleeps) = GptMaxRetries - 1)

C19_Witness ==
    /\ tasks["claude"].pc = "done"
    /\ tasks["claude"].outcome.kind = "raise"
    /\ tasks["claude"].outcome.exc.cls = "TypeError"
    /\ tasks["claude"].calls = ClaudeMaxRetries
    /\ tasks["gpt"].pc = "sleep"
    /\ tasks["gpt"].last_exception.msg = FixedRateLimitMessage
    /\ tasks["gpt"].calls = 2

FrameOf(who) == IF who = "synth" THEN sw ELSE tasks[who]

\* C20: the exception an adapter raises for a failed attempt is decided by
\* the class of what the API call raised, one of three ways: a RateLimitError
\* gives a new Exception with the fixed rate-limit message, any other
\* APIError gives a new Exception "<backend> API error: " followed by the
\* API's message, anything else is re-raised as it is; RateLimitError, a
\* subclass of APIError, is handled as a rate limit.
C20_FailureClassification ==
    \A who \in Callers :
        LET raw == lastApiExc[who]
            e == FrameOf(who).last_exception
        IN raw # NoExc =>
            /\ raw.cls = "RateLimitError" =>
                  /\ e.cls = "Exception"
                  /\ e.msg = FixedRateLimitMessage
                  /\ e # raw
            /\ raw.cls = "APIError" =>
                  /\ e.cls = "Exception"
                  /\ e.msg = <<BackendName(AdapterOf(who)), " API error: ">> \o raw.msg
                  /\ e # raw
            /\ raw.cls \notin {"RateLimitError", "APIError"} => e = raw

C20_Witness ==
    /\ lastApiExc["claude"].cls = "RateLimitError"
    /\ tasks["claude"].last_exception.msg = FixedRateLimitMessage
    /\ lastApiExc["gpt"].cls = "APIError"
    /\ lastApiExc["synth"].cls = "TypeError"
    /\ sw.last_exception.cls = "TypeError"

UserMessageOnly(text) == <<Message("user", text)>>

\* C21: every attempt of an adapter sends the history's messages in their
\* order followed by one user message holding the request; without history
\* it sends that user message alone.  (The synthesis attempts are GPT-4
\* calls without history: they send the synthesis prompt alone.)
C21_PromptSequence ==
    /\ Len(sent["claude"]) = tasks["claude"].calls
    /\ Len(sent["gpt"]) = tasks["gpt"].calls + sw.calls
    /\ \A b \in Backends : \A i \in 1..Len(sent[b]) :
          IF i <= tasks[b].calls
          THEN /\ sent[b][i] = qhist \o UserMessageOnly(qmsg)
               /\ qhist = <<>> => sent[b][i] = UserMessageOnly(qmsg)
          ELSE sent[b][i] = UserMessageOnly(synthPrompt)

C21_Witness ==
    /\ qhist # <<>>
    /\ Len(sent["claude"]) = ClaudeMaxRetries
    /\ tasks["gpt"].calls = 2
    /\ Len(sent["gpt"]) = 2 + GptMaxRetries

\* C29: when every API call comes back, a query_both that was called ends,
\* with a return or a raise; it issues at most max_retries Claude calls and
\* at most twice max_retries GPT-4 calls, max_retries for the answer and
\* max_retries for the synthesis.
C29_TerminationBudget ==
    /\ (qpc # "idle") ~> (qpc = "done" /\ qret.kind \in {"return", "raise"})
    /\ [](/\ Len(sent["claude"]) <= ClaudeMaxRetries
          /\ Len(sent["gpt"]) <= 2 * GptMaxRetries
          /\ tasks["claude"].calls <= ClaudeMaxRetries
          /\ tasks["gpt"].calls <= GptMaxRetries
          /\ sw.calls <= GptMaxRetries)

C29_Witness ==
    /\ qpc = "done"
    /\ qret.kind = "return"
    /\ Len(sent["claude"]) = ClaudeMaxRetries
    /\ Len(sent["gpt"]) = 2 * GptMaxRetries

\* C30: when the operation succeeds for the first time on its k-th call, the
\* wrapper has called it k times and slept k-1 times, it returns that call's
\* value, and nothing of the earlier failures reaches the caller; the
\* operation is not called again after a success.
C30_StopsAtFirstSuccess ==
    /\ \A i \in 1..(Len(opLog) - 1) : opLog[i].kind = "raise"
    /\ (opLog # <<>> /\ opLog[Len(opLog)].kind = "return") =>
          /\ w.pc = "done"
          /\ w.calls = Len(opLog)
          /\ Len(w.sleeps) = Len(opLog) - 1
          /\ w.outcome = Returned(opLog[Len(opLog)].val)
          /\ w.outcome.exc = NoExc

C30_Witness ==
    /\ max_retries = 3
    /\ Len(opLog) = 3
    /\ opLog[3].kind = "return"
    /\ w.outcome.kind = "return"
    /\ w.last_exception # NoExc

(***************************************************************************)
(* Overlapping query handlers (SpecHandlers).                              *)
(***************************************************************************)
InFlight == {"query", "gather", "synth"}

\* some invocation's query returns or raises to its handler in this step
AQueryEnds == \E s \in Slots : hq[s].pc \in InFlight /\ hq'[s].pc = "done"

\* C22: read-only borrow.  No step of a query pipeline (building the
\* messages of an attempt, an API call that returns or raises, a backoff,
\* the gather, the synthesis) adds, removes or reorders entries of the
\* history list an invocation holds, and none changes the store: the store
\* changes only in the step in which a query has returned to its handler.
C22_ReadOnlyBorrow ==
    [][~AQueryEnds =>
          /\ histories' = histories
          /\ \A s \in Slots :
                hq[s].pc \in InFlight =>
                   (IF hq'[s].ref = "live" THEN histories'[hq'[s].user]
                                           ELSE hq'[s].hist)
                   = Held(hq, histories, s)]_vars

\* a /both invocation with a history of two entries is in its synthesis
\* retry and the store still holds what the handler read
C22_Witness ==
    \E s \in Slots :
       /\ hq[s].kind = "both_command"
       /\ hq[s].pc = "synth"
       /\ hq[s].frames["synth"].calls >= 2
       /\ hq[s].frames["claude"].calls >= 2
       /\ Len(hq[s].read) = 2
       /\ histories[hq[s].user] = hq[s].read

\* C23: snapshot stability under overlap.  Every attempt of Primary and
\* Secondary in an invocation is sent the history the handler read before
\* dispatch, followed by the user message, whatever other queries of the
\* same user have appended meanwhile.
C23_SnapshotStability ==
    \A s \in Slots, b \in Backends :
       hq[s].lastSent[b] # <<>> =>
          hq[s].lastSent[b] = hq[s].read \o <<Message("user", hq[s].message)>>
\* the final answer of a query that returned: the text of the single
\* backend, or the synthesized text of query_both
FinalAnswer(h) == IF IsSingle(h.kind) THEN h.qret.val ELSE h.qret.val[1]

\* the exchange a handler stores for invocation record h
ExchangeOf(h) ==
    <<Message("user", h.message), Message("assistant", FinalAnswer(h))>>

\* the newest entries of s, at most n of them
Newest(s, n) == LastN(s, Min(Len(s), n))

\* C24: in each query handler the history is read before anything is
\* dispatched to a backend, and the store is written only in a step in which
\* the invocation's whole pipeline has returned successfully: then the user
\* message and after it the final answer are appended.
C24_ReadDispatchWrite ==
    [][/\ \A s \in Slots :
             /\ hq[s].pc \in {"idle", "typing"} =>
                   \A c \in Callers : /\ hq[s].lastSent[c] = <<>>
                                      /\ hq[s].frames[c].calls = 0
             /\ (hq[s].pc = "typing" /\ hq'[s].pc \in InFlight) =>
                   hq'[s].read = get_history(histories, hq[s].user)
       /\ histories' # histories =>
             \E s \in Slots :
                /\ hq[s].pc \in InFlight
                /\ hq'[s].pc = "done"
                /\ hq'[s].qret.kind = "return"
                /\ \A u \in UserIds :
                      get_history(histories', u) =
                         IF u = hq[s].user
                         THEN Newest(get_history(histories, u)
                                        \o ExchangeOf(hq'[s]), 2 * max_length)
                         ELSE get_history(histories, u)]_vars

\* a /both of a user with an earlier exchange has returned after its
\* synthesis and the store ends with its question and the synthesized text
C24_Witness ==
    \E s \in Slots :
       /\ hq[s].pc = "done"
       /\ hq[s].kind = "both_command"
       /\ hq[s].qret.kind = "return"
       /\ hq[s].qret.val[1] = AnswerOf(s, "synth")
       /\ Len(hq[s].read) = 2
       /\ max_length = 2
       /\ Newest(histories[hq[s].user], 2) = ExchangeOf(hq[s])
\* C25: no append is lost.  Under every interleaving of overlapping queries
\* each user's history is the sequence of all messages passed to
\* add_message for that user, in the order of the calls, less the oldest
\* ones evicted by the bound of 2 * max_length entries.
C25_NoLostAppend ==
    \A u \in UserIds :
       get_history(histories, u) = Newest(added[u], 2 * max_length)

\* two overlapping queries of the same user, who had an earlier exchange,
\* have both stored their exchange and the oldest entries were evicted
C25_Witness ==
    /\ Len(hdone) = 2
    /\ hq[1].user = hq[2].user
    /\ hq[1].before = {}
    /\ hq[2].before = {}
    /\ Len(added[hq[1].user]) = 6
    /\ Len(histories[hq[1].user]) = 2 * max_length
\* h has even length and alternates user, assistant, starting with user
Alternates(h) ==
    /\ Len(h) % 2 = 0
    /\ \A i \in 1..Len(h) :
          h[i].role = IF i % 2 = 1 THEN "user" ELSE "assistant"

\* C26: pair integrity.  Under every interleaving the two entries a query
\* has written are adjacent in the store, the user message immediately
\* followed by its answer, as long as they are kept; and every history a
\* handler reads has even length and alternates user, assistant, starting
\* with user.
C26_PairIntegrity ==
    /\ \A s \in Slots : Alternates(hq[s].read)
    /\ \A u \in DOMAIN histories : Alternates(histories[u])
    /\ \A s \in Slots :
          (hq[s].pc = "done" /\ hq[s].qret.kind = "return") =>
             LET h == histories[hq[s].user]
                 pair == ExchangeOf(hq[s])
             IN \A i \in 1..Len(h) :
                   /\ h[i] = pair[1] => (i < Len(h) /\ h[i + 1] = pair[2])
                   /\ h[i] = pair[2] => (i > 1 /\ h[i - 1] = pair[1])

\* an invocation that was called before the other one of the same user
\* completed has read a history that holds the other one's exchange after
\* the earlier one
C26_Witness ==
    /\ hq[1].pc = "done"
    /\ hq[2].pc \in InFlight
    /\ hq[2].before = {}
    /\ hq[2].user = hq[1].user
    /\ Len(hq[2].read) = 4
    /\ LastN(hq[2].read, 2) = ExchangeOf(hq[1])
PositionIn(h, m) == CHOOSE i \in 1..Len(h) : h[i] = m

\* the exchanges of the queries of one user were passed to add_message in
\* the order in which the queries completed
AppendedInCompletionOrder ==
    \A i \in 1..Len(hdone), j \in 1..Len(hdone) :
       (i < j /\ hq[hdone[i]].user = hq[hdone[j]].user) =>
          LET h == added[hq[hdone[i]].user]
          IN PositionIn(h, ExchangeOf(hq[hdone[i]])[2])
                < PositionIn(h, ExchangeOf(hq[hdone[j]])[1])

\* what the backends of invocation s are sent of another query r of the
\* same user is what the handler of s read: nothing of a query that had not
\* completed then
SeesOnlyWhatItRead ==
    \A s \in Slots, r \in Slots, b \in Backends :
       (s # r /\ hq[r].pc = "done" /\ hq[r].qret.kind = "return") =>
          \A k \in 1..2 :
             ExchangeOf(hq[r])[k] \in Range(hq[s].lastSent[b]) =>
                ExchangeOf(hq[r])[k] \in Range(hq[s].read)

\* C27: for overlapping queries of the same user the exchanges are appended
\* in the order in which the queries complete, and a query that started
\* before an earlier one completed does not see that query's messages in
\* its history.
C27_CompletionOrderVisibility ==
    /\ AppendedInCompletionOrder
    /\ SeesOnlyWhatItRead
\* C28: state unchanged on error.  When the query of an invocation raises
\* (query_both with both backends failed, or a single-backend call that
\* failed on every attempt), the step leaves every history as it was, the
\* user message is not stored, and the reply is the generic error text.
C28_UnchangedOnError ==
    [][\A s \in Slots :
          (hq[s].pc \in InFlight /\ hq'[s].pc = "done"
              /\ hq'[s].qret.kind = "raise") =>
             /\ histories' = histories
             /\ Message("user", hq[s].message)
                   \notin Range(get_history(histories', hq[s].user))
             /\ hq'[s].reply = FriendlyError
             /\ hq'[s].qret.exc.cls \in {"Exception", "APIError"}]_vars

\* a /both whose two backends failed on all their attempts has replied with
\* the error text, while the store holds the exchange of the other query
\* of the same user
C28_Witness ==
    \E s \in Slots, r \in Slots :
       /\ hq[s].pc = "done"
       /\ hq[s].kind = "both_command"
       /\ hq[s].qret = Raised(BothModelsFailed)
       /\ hq[s].reply = FriendlyError
       /\ r # s
       /\ hq[r].user = hq[s].user
       /\ hq[r].kind = "gpt_command"
       /\ hdone = <<r>>
       /\ histories[hq[s].user] = hq[s].read \o ExchangeOf(hq[r])
(***************************************************************************)
(* The synthesis call and the shape of query_both's result.                *)
(***************************************************************************)
\* C31: the synthesis call is retried like any GPT-4 call.  While attempts
\* remain query_both has not returned; the synthesis call ends in a failure,
\* and the synthesized field is Claude's answer, only after GptMaxRetries
\* failed attempts; when an attempt succeeds, also after failed ones, the
\* synthesized field is the text of that attempt.
C31_SynthesisRetried ==
    /\ (qpc = "synth" /\ sw.pc # "done") =>
          /\ qret = Pending
          /\ sw.calls <= GptMaxRetries
          /\ Len(sw.sleeps) = IF sw.pc = "sleep" THEN sw.calls ELSE sw.calls - 1
    /\ (qpc = "done" /\ synthCount = 1 /\ sw.outcome.kind = "raise") =>
          /\ sw.calls = GptMaxRetries
          /\ sw.sleeps = [i \in 1..(GptMaxRetries - 1) |->
                             GptBaseDelay * Pow2(i - 1)]
          /\ qret.kind = "return"
          /\ qret.val[1] = Primary.val
    /\ (qpc = "done" /\ synthCount = 1 /\ sw.outcome.kind = "return") =>
          /\ sw.calls <= GptMaxRetries
          /\ qret.kind = "return"
          /\ qret.val[1] = sw.outcome.val

\* the synthesis call failed, slept and then succeeded: the synthesized
\* field is its text, not Claude's answer
C31_Witness ==
    /\ qpc = "done"
    /\ synthCount = 1
    /\ sw.calls = GptMaxRetries
    /\ sw.last_exception # NoExc
    /\ sw.outcome.kind = "return"
    /\ qret.val[1] = sw.outcome.val
    /\ qret.val[1] # Primary.val
Placeholders == {ClaudePlaceholder, GptPlaceholder}

\* C32: the synthesized field query_both returns is never a placeholder: it
\* is the text of one of the invocation's backend calls (the surviving
\* answer, the synthesis output, or Claude's answer); and no entry of any
\* history is a placeholder.
C32_NoPlaceholderStored ==
    /\ \A s \in Slots :
          (hq[s].kind = "both_command" /\ hq[s].qret.kind = "return") =>
             /\ hq[s].qret.val[1] \notin Placeholders
             /\ hq[s].qret.val[1] \in {AnswerOf(s, c) : c \in Callers}
    /\ \A u \in DOMAIN histories :
          \A i \in 1..Len(histories[u]) :
             histories[u][i].content \notin Placeholders

\* a /both whose GPT-4 call failed on all attempts returned Claude's answer
\* with the GPT-4 placeholder, and the handler stored Claude's answer
C32_Witness ==
    \E s \in Slots :
       /\ hq[s].pc = "done"
       /\ hq[s].qret =
             Returned(<<AnswerOf(s, "claude"), AnswerOf(s, "claude"),
                        GptPlaceholder>>)
       /\ LastN(histories[hq[s].user], 1)
             = <<Message("assistant", AnswerOf(s, "claude"))>>
(***************************************************************************)
(* Isolation of the users' histories (SpecHistory).                        *)
(***************************************************************************)
\* the store after add_message was called for user u alone, on an empty
\* store, with the messages msgs in order
RECURSIVE AloneAfter(_, _, _)
AloneAfter(msgs, ml, u) ==
    IF msgs = <<>>
    THEN [x \in {} |-> <<>>]
    ELSE LET m == msgs[Len(msgs)]
         IN add_message(AloneAfter(SubSeq(msgs, 1, Len(msgs) - 1), ml, u),
                        ml, u, m.role, m.content)

\* C33: per-user isolation.  A call of add_message, get_history or
\* clear_history for one user leaves every other user's entry as it was:
\* present or absent, with the same messages.  So after any interleaving
\* each user's history is what the calls since that user's last clear
\* give when made for that user alone.
C33_PerUserIsolation ==
    /\ [][\A v \in UserIds :
             v # lastCall'.user =>
                /\ (v \in DOMAIN histories') = (v \in DOMAIN histories)
                /\ get_history(histories', v) = get_history(histories, v)]_vars
    /\ [](\A u \in UserIds :
             get_history(histories, u)
                = get_history(AloneAfter(added[u], max_length, u), u))

\* user 1 was cleared after messages for both users had been added in
\* turn; user 2 keeps its trimmed history
C33_Witness ==
    /\ lastCall = [op |-> "clear_history", user |-> 1]
    /\ 1 \in DOMAIN histories
    /\ histories[1] = <<>>
    /\ max_length = 1
    /\ Len(added[2]) = 3
    /\ histories[2] = LastN(added[2], 2)
(***************************************************************************)
(* The order in which the gathered calls finish (SpecQueryOrder).          *)
(***************************************************************************)
\* what query_both gives for the final outcomes p, s of the Claude and the
\* GPT-4 call and y of the synthesis call
OutcomeFor(p, s, y) ==
    IF p.kind = "raise" /\ s.kind = "raise" THEN Raised(BothModelsFailed)
    ELSE IF p.kind = "raise" THEN Returned(<<s.val, ClaudePlaceholder, s.val>>)
    ELSE IF s.kind = "raise" THEN Returned(<<p.val, p.val, GptPlaceholder>>)
    ELSE IF y.kind = "return" THEN Returned(<<y.val, p.val, s.val>>)
    ELSE Returned(<<p.val, p.val, s.val>>)

\* C34: order independence.  query_both goes on only when both gathered
\* calls have finished, in whichever order; synthesis is invoked exactly
\* when both returned; and what query_both returns or raises is a function
\* of the final outcomes of the two calls and of the synthesis call alone.
C34_OrderIndependence ==
    /\ qpc \in {"synth", "done"} =>
          /\ \A b \in Backends : tasks[b].pc = "done"
          /\ settled \in {<<"claude", "gpt">>, <<"gpt", "claude">>}
          /\ synthCount =
                IF Primary.kind = "return" /\ Secondary.kind = "return"
                THEN 1 ELSE 0
    /\ qpc = "synth" => qret = Pending
    /\ qpc = "done" => qret = OutcomeFor(Primary, Secondary, sw.outcome)

\* GPT-4 finished first, after one attempt, and Claude after it, on its
\* last attempt; the synthesis ran and its text is the synthesized field
C34_Witness ==
    /\ qpc = "done"
    /\ settled = <<"gpt", "claude">>
    /\ tasks["gpt"].calls = 1
    /\ tasks["claude"].calls = ClaudeMaxRetries
    /\ Primary.kind = "return"
    /\ synthCount = 1
    /\ sw.outcome.kind = "return"
    /\ qret = Returned(<<sw.outcome.val, Primary.val, Secondary.val>>)
====
